---- MODULE Spec2Model ----
(***************************************************************************)
(* A model of the Partly product-enrichment pipeline:                      *)
(*   crawlPage / crawlWithPlaywright      (services/extractService.ts)     *)
(*   extractFromHtml quality gate         (services/extractService.ts)     *)
(*   normalizeProducts, runProductPipeline (unnamed/part_003)              *)
(*   synthesizeProductContent             (services/pdfExtractService.ts)  *)
(*   enrichHandler, startEnrichment       (unnamed/part_001)               *)
(*   discoverProductSources, scoreResults (services/extractService.ts)     *)
(*   extractFromPdf                       (services/pdfExtractService.ts)  *)
(*                                                                         *)
(* Numbers: confidences are exact rationals.  A per-source confidence and  *)
(* a quality score are integers in hundredths (30 is 0.30); the blended    *)
(* confidence is a record [n, d] standing for n/d.  Strings the code only  *)
(* compares are TLA+ strings; strings the code takes apart ("Label: value" *)
(* bullets, MPNs) are sequences of tokens.                                 *)
(***************************************************************************)
EXTENDS Integers, Sequences, FiniteSets, TLC

\* JavaScript null / undefined in a place that otherwise holds a record
None == [null |-> TRUE]

(***************************************************************************)
(* Bounds of the model.                                                    *)
(***************************************************************************)
\* longest keyFeatures list an LLM response carries
MaxFeatures == 2
\* longest ExtractedProduct list handed to normalizeProducts
MaxProducts == 2
\* number of MPNs in one batch
MaxBatch == 2
\* number of files chosen in the UI
MaxUploads == 3

(***************************************************************************)
(* Program constants.                                                      *)
(***************************************************************************)
FetchAttempts == 2
MinHtmlLen == 1000
UsableLen == 8000
ChallengeLen == 12000
MaxCrawlUrls == 3
MaxBackupUrls == 3
QualityFloor == 30
UsableThreshold == 65
ContentConfidenceCap == 85
DatasheetConfidence == 95
VariantConfidence == 95
SeoLimit == 160

(***************************************************************************)
(* Small helpers.                                                          *)
(***************************************************************************)
Min(a, b) == IF a <= b THEN a ELSE b

Range(s) == {s[i] : i \in 1..Len(s)}

SeqsUpTo(S, n) == UNION {[1..k -> S] : k \in 0..n}

RECURSIVE flatten(_)
\* the concatenation of a sequence of sequences
flatten(ss) == IF ss = <<>> THEN <<>> ELSE Head(ss) \o flatten(Tail(ss))

\* a rational n/d with d > 0
Rat(n, d) == [n |-> n, d |-> d]
RatGeq(a, b) == a.n * b.d >= b.n * a.d
RatEq(a, b) == a.n * b.d = b.n * a.d
Hundredths(h) == Rat(h, 100)

(***************************************************************************)
(* HTML documents, as the crawler's checks see them.  A page is the record *)
(* of the facts isValidHtml, isHomepageLike, looksLikeProductPage and      *)
(* hasUsableProductSignals read off the text.                              *)
(***************************************************************************)
BasePage ==
  [len |-> 9000,          \* html.length
   jsOrCaptcha |-> FALSE, \* contains "enable javascript" or "captcha"
   navs |-> 1,            \* occurrences of <nav
   gridPhrase |-> FALSE,  \* "featured products", "categories", "shop by", "our products"
   cards |-> 0,           \* occurrences of product-card
   heading |-> TRUE,      \* an <h1 ...> or <title>
   specWord |-> FALSE,    \* "specification" or "technical data"
   table |-> TRUE,        \* "<table" or "<dl"
   pdf |-> FALSE,         \* ".pdf"
   pdfWord |-> "none",    \* which of datasheet / download / manual occurs
   tokens |-> 0]          \* matches of \b[0-9a-z\-]{6,}\b

Pages ==
  { BasePage,
    [BasePage EXCEPT !.len = 999],
    [BasePage EXCEPT !.len = 1000],
    [BasePage EXCEPT !.len = 8000],
    [BasePage EXCEPT !.jsOrCaptcha = TRUE],
    [BasePage EXCEPT !.navs = 2, !.gridPhrase = TRUE],
    [BasePage EXCEPT !.table = FALSE, !.pdf = TRUE, !.pdfWord = "download"],
    [BasePage EXCEPT !.table = FALSE, !.specWord = TRUE, !.tokens = 5] }

\* what page.content() can also give: a document with nothing in it, which
\* still serializes to its <html><head></head><body></body></html> skeleton
\* of 39 characters
EmptyPage == [BasePage EXCEPT !.len = 39, !.heading = FALSE, !.table = FALSE, !.navs = 0]

RenderedPages == Pages \cup {EmptyPage}

\* JavaScript truthiness of html: string | null
Truthy(html) == html # None /\ html.len > 0

isValidHtml(html) ==
  /\ Truthy(html)
  /\ ~(html.len < MinHtmlLen)
  /\ ~html.jsOrCaptcha

isHomepageLike(html) ==
  LET navHeavy == html.navs >= 2
      productGridSignals == html.gridPhrase
      multipleCards == html.cards >= 3
  IN navHeavy /\ (productGridSignals \/ multipleCards)

looksLikeProductPage(html) ==
  IF isHomepageLike(html) THEN FALSE
  ELSE LET hasTitle == html.heading
           hasSpecs == html.specWord \/ html.table
           hasDatasheet == html.pdf /\ html.pdfWord \in {"datasheet", "download"}
       IN hasTitle /\ (hasSpecs \/ hasDatasheet)

hasUsableProductSignals(html) ==
  IF ~Truthy(html) THEN FALSE
  ELSE LET textDensityOk == html.len > UsableLen
           hasSpecTable == html.table
           hasDatasheet == html.pdf /\ html.pdfWord \in {"datasheet", "manual"}
           repeatedMpn == html.tokens >= 5
           strongSignal == hasSpecTable \/ hasDatasheet \/ repeatedMpn
       IN textDensityOk /\ strongSignal

(***************************************************************************)
(* MPNs are sequences of characters: runProductPipeline rewrites them.     *)
(***************************************************************************)
Mpns == { <<"M", "-", "1">>, <<"m", " ", "1", "r", "a">> }

Manufacturer == "SurgePure"

toUpperCase(c) ==
  CASE c = "m" -> "M"
    [] c = "r" -> "R"
    [] c = "a" -> "A"
    [] OTHER -> c

isDashOrSpace(c) == c \in {" ", "en-dash", "em-dash"}

RECURSIVE replaceDashRuns(_)
\* mpn.replace(/[en-dash em-dash \s]+/g, "-"): every run becomes one hyphen
replaceDashRuns(s) ==
  IF s = <<>> THEN <<>>
  ELSE IF isDashOrSpace(Head(s))
       THEN IF Len(s) > 1 /\ isDashOrSpace(s[2])
            THEN replaceDashRuns(Tail(s))
            ELSE <<"-">> \o replaceDashRuns(Tail(s))
       ELSE <<Head(s)>> \o replaceDashRuns(Tail(s))

canonicalMpnOf(m) ==
  LET r == replaceDashRuns(m) IN [i \in 1..Len(r) |-> toUpperCase(r[i])]

endsWithRA(m) == Len(m) >= 2 /\ m[Len(m) - 1] = "R" /\ m[Len(m)] = "A"

\* a lookup MPN that keeps the RA suffix
lookupMpnKeepsRA(m) == canonicalMpnOf(m)

\* canonicalMpn.replace(/RA$/, "") for an RA variant, else canonicalMpn
lookupMpnOf(m) ==
  LET c == canonicalMpnOf(m)
  IN IF endsWithRA(c) THEN SubSeq(c, 1, Len(c) - 2) ELSE c

(***************************************************************************)
(* Synthesis: synthesizeProductContent and its helpers.                    *)
(*                                                                         *)
(* A specs map is a sequence of [key, value] pairs with distinct keys, in  *)
(* insertion order (the order Object.entries gives).  A keyFeatures bullet *)
(* is a sequence of tokens, ":" being the colon; the empty sequence is the *)
(* string that is empty after trim().  Free text (overview, descriptions)  *)
(* is "" or a non-empty string; seoDescription is its length.              *)
(***************************************************************************)
Keys(specs) == {specs[i].key : i \in 1..Len(specs)}

Lookup(specs, k) == specs[CHOOSE i \in 1..Len(specs) : specs[i].key = k].value

\* f.indexOf(":"), 1-based; 0 when there is none (JavaScript's -1)
indexOfColon(f) ==
  IF \E i \in 1..Len(f) : f[i] = ":"
  THEN CHOOSE i \in 1..Len(f) : f[i] = ":" /\ \A j \in 1..(i - 1) : f[j] # ":"
  ELSE 0

\* f.slice(0, idx).trim()
labelOf(f) == SubSeq(f, 1, indexOfColon(f) - 1)

\* f.slice(idx + 1).trim()
valueOf(f) == SubSeq(f, indexOfColon(f) + 1, Len(f))

\* label in input.specs
labelInSpecs(f, specs) == Len(labelOf(f)) = 1 /\ labelOf(f)[1] \in Keys(specs)

nonEmpty(x) == x # <<>>

\* arr.map(s => String(s).trim()).filter(Boolean)
trimFilter(arr) == SelectSeq(arr, nonEmpty)

RECURSIVE dedupe(_)
\* Array.from(new Set(arr)): first occurrences, in order
dedupe(arr) ==
  IF arr = <<>> THEN <<>>
  ELSE LET front == dedupe(SubSeq(arr, 1, Len(arr) - 1))
           last == arr[Len(arr)]
       IN IF last \in Range(front) THEN front ELSE Append(front, last)

\* set.add(x) followed by Array.from(set)
setAdd(arr, x) == IF x \in Range(arr) THEN arr ELSE Append(arr, x)

MissingDisclaimer == "Some specifications were not provided and are listed as Not specified."
InstallDisclaimer == "Installation should follow local electrical codes and be performed by qualified personnel."
InsufficientDisclaimer == "Insufficient verified product data available to generate content."

\* val.trim().toLowerCase() of the spec values the model uses
trimLower(val) ==
  CASE val \in {"Not specified", "not specified", "NOT SPECIFIED", " NOT SPECIFIED "} ->
         "not specified"
    [] val = " " -> ""
    [] OTHER -> val

\* !val || val.trim().toLowerCase() === "not specified"
isMissingValue(val) == val = "" \/ trimLower(val) = "not specified"

\* a normalization that leaves seoDescription as long as the LLM made it
normalizeKeepsSeo(out, canonicalTitle) ==
  LET keyFeatures == trimFilter(out.keyFeatures)
      bulletHighlights == trimFilter(out.bulletHighlights)
      seo == out.seoDescription
      finalKeyFeatures == IF Len(keyFeatures) > 0 THEN keyFeatures ELSE bulletHighlights
      finalBulletHighlights ==
        IF Len(bulletHighlights) > 0 THEN bulletHighlights ELSE keyFeatures
      overview == IF out.overview = "" /\ Len(finalKeyFeatures) >= 4
                  THEN "The <title> is a digital input module ..."
                  ELSE out.overview
      shortDescription ==
        IF out.shortDescription = "" /\ Len(finalKeyFeatures) > 0
        THEN "The <title> is a digital input module featuring ..."
        ELSE out.shortDescription
  IN [canonicalTitle |-> canonicalTitle,
      keyFeatures |-> finalKeyFeatures,
      overview |-> overview,
      shortDescription |-> shortDescription,
      longDescription |-> out.longDescription,
      bulletHighlights |-> finalBulletHighlights,
      seoDescription |-> seo,
      disclaimers |-> out.disclaimers]

normalizeSynthesisOutput(out, canonicalTitle) ==
  LET keyFeatures == trimFilter(out.keyFeatures)
      bulletHighlights == trimFilter(out.bulletHighlights)
      seo == IF out.seoDescription > SeoLimit THEN SeoLimit - out.seoTrim
             ELSE out.seoDescription
      finalKeyFeatures == IF Len(keyFeatures) > 0 THEN keyFeatures ELSE bulletHighlights
      finalBulletHighlights ==
        IF Len(bulletHighlights) > 0 THEN bulletHighlights ELSE keyFeatures
      overview == IF out.overview = "" /\ Len(finalKeyFeatures) >= 4
                  THEN "The <title> is a digital input module ..."
                  ELSE out.overview
      shortDescription ==
        IF out.shortDescription = "" /\ Len(finalKeyFeatures) > 0
        THEN "The <title> is a digital input module featuring ..."
        ELSE out.shortDescription
  IN [canonicalTitle |-> canonicalTitle,
      keyFeatures |-> finalKeyFeatures,
      overview |-> overview,
      shortDescription |-> shortDescription,
      longDescription |-> out.longDescription,
      bulletHighlights |-> finalBulletHighlights,
      seoDescription |-> seo,
      disclaimers |-> out.disclaimers]

\* the validation with an array for the set: duplicates stay
validateKeepsDuplicates(input, output) ==
  LET anySpecMissing ==
        \E i \in 1..Len(input.specs) : isMissingValue(input.specs[i].value)
      d0 == output.disclaimers
      d1 == IF anySpecMissing THEN Append(d0, MissingDisclaimer) ELSE d0
      d2 == Append(d1, InstallDisclaimer)
  IN [output EXCEPT !.canonicalTitle =
                       IF ".com" \in Range(@) \/ ".net" \in Range(@)
                       THEN <<input.manufacturer, " ">> \o input.mpn ELSE @,
                    !.disclaimers = d2]

validateAgainstInput(input, output) ==
  LET keyFeaturesChanged == FALSE
      filteredKeyFeatures == output.keyFeatures
      anySpecMissing ==
        \E i \in 1..Len(input.specs) : isMissingValue(input.specs[i].value)
      d0 == dedupe(output.disclaimers)
      d1 == IF anySpecMissing \/ keyFeaturesChanged
            THEN setAdd(d0, MissingDisclaimer) ELSE d0
      d2 == setAdd(d1, InstallDisclaimer)
  IN [output EXCEPT !.canonicalTitle =
                       IF ".com" \in Range(@) \/ ".net" \in Range(@)
                       THEN <<input.manufacturer, " ">> \o input.mpn ELSE @,
                    !.keyFeatures = filteredKeyFeatures,
                    !.disclaimers = d2]

\* the number of keyFeatures whose label is a key of input.specs
usedSpecsCount(input, output) ==
  Cardinality({i \in 1..Len(output.keyFeatures) :
                 indexOfColon(output.keyFeatures[i]) # 0
                 /\ labelInSpecs(output.keyFeatures[i], input.specs)})

\* min(0.85, used/total + 0.1 hasImages + 0.1 hasDatasheets), as a rational
computeContentConfidence(input, output) ==
  LET totalSpecs == Len(input.specs)
      hasImages == IF Len(input.images) > 0 THEN 10 ELSE 0
      hasDatasheets == IF Len(input.datasheets) > 0 THEN 10 ELSE 0
      sum == 100 * usedSpecsCount(input, output) + (hasImages + hasDatasheets) * totalSpecs
  IN IF totalSpecs = 0 THEN Rat(0, 1)
     ELSE Rat(Min(ContentConfidenceCap * totalSpecs, sum), 100 * totalSpecs)

resolvedDisplayTitle(input) ==
  IF Len(input.canonicalTitle) > 0 THEN input.canonicalTitle
  ELSE <<input.manufacturer, " ">> \o input.mpn

\* an early return that reports the highest content confidence
synthesizeNoSpecsConfident(input) ==
  [canonicalTitle |-> input.canonicalTitle,
   displayTitle |-> resolvedDisplayTitle(input),
   keyFeatures |-> <<>>,
   overview |-> "",
   shortDescription |->
     IF Len(input.verbatimDescriptors) > 0 THEN "<manufacturer> <mpn> <descriptors>" ELSE "",
   longDescription |-> "",
   bulletHighlights |-> <<>>,
   seoDescription |-> 0,
   disclaimers |-> <<InsufficientDisclaimer, InstallDisclaimer>>,
   confidence |-> Rat(85, 100)]

\* the early return for an input without specs: the LLM is not called
synthesizeNoSpecs(input) ==
  [canonicalTitle |-> input.canonicalTitle,
   displayTitle |-> resolvedDisplayTitle(input),
   keyFeatures |-> <<>>,
   overview |-> "",
   shortDescription |->
     IF Len(input.verbatimDescriptors) > 0 THEN "<manufacturer> <mpn> <descriptors>" ELSE "",
   longDescription |-> "",
   bulletHighlights |-> <<>>,
   seoDescription |-> 0,
   disclaimers |-> <<InsufficientDisclaimer, InstallDisclaimer>>,
   confidence |-> Rat(0, 1)]

\* the path through the LLM, for a response that parsed to the object llm
synthesizeFromLlm(input, llm) ==
  LET normalized == validateAgainstInput(input,
                      normalizeSynthesisOutput(llm, input.canonicalTitle))
  IN [canonicalTitle |-> input.canonicalTitle,
      displayTitle |-> resolvedDisplayTitle(input),
      keyFeatures |-> normalized.keyFeatures,
      overview |-> normalized.overview,
      shortDescription |-> normalized.shortDescription,
      longDescription |-> normalized.longDescription,
      bulletHighlights |-> normalized.bulletHighlights,
      seoDescription |-> normalized.seoDescription,
      disclaimers |-> normalized.disclaimers,
      confidence |-> computeContentConfidence(input, normalized)]

callsLlm(input) == Len(input.specs) # 0

synthesizeProductContent(input, llm) ==
  IF ~callsLlm(input) THEN synthesizeNoSpecs(input) ELSE synthesizeFromLlm(input, llm)

(***************************************************************************)
(* Normalization: normalizeProducts.                                       *)
(*                                                                         *)
(* An ExtractedProduct is a record; an absent title is <<>>, an absent     *)
(* rawDatasheet is None.  Titles are token sequences.  A rawDatasheet has  *)
(* its three spec groups as [key, value] sequences over the raw keys, its  *)
(* overview and system description texts ("" when absent) and its key      *)
(* feature bullets.                                                        *)
(***************************************************************************)
\* key.replace(/_raw$/, "").replace(/_/g, " ").replace(/\b\w/g, c => c.toUpperCase())
specKeyOfRaw(key) ==
  CASE key = "voltage_raw" -> "Voltage"
    [] key = "system_voltage" -> "System Voltage"
    [] key = "weight_raw" -> "Weight"
    [] key = "weight" -> "Weight"
    [] key = "remote_alarm" -> "Remote Alarm"
    [] OTHER -> key

CanonicalVoltage == "Nominal AC Line Voltage (VRMS)"

\* SPEC_ALIASES[key] ?? key
canonicalKeyOf(key) ==
  IF key \in {"System Voltage", "Voltage", "Nominal Ac Line Voltage Vrms",
              "Nominal Ac Line Voltage (Vrms)", "Nominal AC Line Voltage Vrms"}
  THEN CanonicalVoltage
  ELSE key

\* obj[k] = v on an insertion-ordered map of [key, value] entries
setSpec(specs, k, v) ==
  IF k \in Keys(specs)
  THEN [i \in 1..Len(specs) |-> IF specs[i].key = k THEN [key |-> k, value |-> v] ELSE specs[i]]
  ELSE Append(specs, [key |-> k, value |-> v])

RECURSIVE flattenGroup(_, _)
\* one of the three loops over a group of the rawDatasheet
flattenGroup(specs, group) ==
  IF group = <<>> THEN specs
  ELSE LET e == Head(group)
       IN flattenGroup(IF e.value # "" THEN setSpec(specs, specKeyOfRaw(e.key), e.value)
                       ELSE specs,
                       Tail(group))

rawSections(raw, sourceUrl) ==
  (IF raw.overview # ""
   THEN <<[heading |-> "Overview", text |-> raw.overview, source |-> sourceUrl]>>
   ELSE <<>>)
  \o (IF raw.systemDescription # ""
      THEN <<[heading |-> "System Description", text |-> raw.systemDescription,
              source |-> sourceUrl]>>
      ELSE <<>>)
  \o [i \in 1..Len(raw.bullets) |->
        [heading |-> "Key Feature", text |-> raw.bullets[i], source |-> sourceUrl]]

\* the body of the preprocessing loop: it assigns to p.specs and pushes onto
\* p.verbatimSections, i.e. it changes the caller's object
preprocessProduct(p) ==
  IF p.sourceType = "datasheet" /\ p.rawDatasheet # None
  THEN [p EXCEPT
          !.specs = flattenGroup(flattenGroup(flattenGroup(@,
                       p.rawDatasheet.electrical_specs),
                       p.rawDatasheet.mechanical_specs),
                       p.rawDatasheet.safety_and_compliance),
          !.verbatimSections = @ \o rawSections(p.rawDatasheet, p.sourceUrl)]
  ELSE p

preprocessAll(products) == [i \in 1..Len(products) |-> preprocessProduct(products[i])]

\* the file data/surgepure/products/<mpn>.json: absent, unparsable, or a blob
injectsDatasheet(products, disk) ==
  /\ ~\E i \in 1..Len(products) : products[i].sourceType = "datasheet"
  /\ disk.state # "absent"

datasheetProduct(base, raw) ==
  [mpn |-> base.mpn,
   manufacturer |-> base.manufacturer,
   sourceUrl |-> "datasheet:mpn",
   sourceType |-> "datasheet",
   confidence |-> DatasheetConfidence,
   canonicalTitle |-> <<>>,
   displayTitle |-> <<>>,
   specs |-> <<>>,
   verbatimSections |-> <<>>,
   images |-> <<>>,
   datasheets |-> <<>>,
   rawDatasheet |-> raw]

\* the product list the merge works on: injection, then preprocessing
workingProducts(products, disk) ==
  preprocessAll(IF injectsDatasheet(products, disk)
                THEN <<datasheetProduct(products[1], disk.raw)>> \o products
                ELSE products)

normalizeThrows(products, disk) ==
  \/ Len(products) = 0
  \/ injectsDatasheet(products, disk) /\ disk.state = "corrupt"

mergedIndex(merged, k) == CHOOSE i \in 1..Len(merged) : merged[i].key = k

\* the merge with >= for >: a later source of equal confidence takes the value
mergeEntryLastWins(merged, p, e) ==
  IF e.value = "" THEN merged
  ELSE LET canonicalKey == canonicalKeyOf(e.key)
       IN IF canonicalKey \notin Keys(merged)
          THEN Append(merged, [key |-> canonicalKey, value |-> e.value,
                               sources |-> <<p.sourceUrl>>, confidence |-> p.confidence])
          ELSE LET i == mergedIndex(merged, canonicalKey)
                   m == merged[i]
                   m1 == IF p.confidence >= m.confidence
                         THEN [m EXCEPT !.value = e.value, !.confidence = p.confidence]
                         ELSE m
                   m2 == IF p.sourceUrl \notin Range(m1.sources)
                         THEN [m1 EXCEPT !.sources = Append(@, p.sourceUrl)]
                         ELSE m1
               IN [merged EXCEPT ![i] = m2]

\* the merge without the includes() test: every contribution pushes its sourceUrl
mergeEntryAlwaysPush(merged, p, e) ==
  IF e.value = "" THEN merged
  ELSE LET canonicalKey == canonicalKeyOf(e.key)
       IN IF canonicalKey \notin Keys(merged)
          THEN Append(merged, [key |-> canonicalKey, value |-> e.value,
                               sources |-> <<p.sourceUrl>>, confidence |-> p.confidence])
          ELSE LET i == mergedIndex(merged, canonicalKey)
                   m == merged[i]
                   m1 == IF p.confidence > m.confidence
                         THEN [m EXCEPT !.value = e.value, !.confidence = p.confidence]
                         ELSE m
               IN [merged EXCEPT ![i] = [m1 EXCEPT !.sources = Append(@, p.sourceUrl)]]

\* the body of the inner merge loop for one entry of p.specs
mergeEntry(merged, p, e) ==
  IF e.value = "" THEN merged
  ELSE LET canonicalKey == canonicalKeyOf(e.key)
       IN IF canonicalKey \notin Keys(merged)
          THEN Append(merged, [key |-> canonicalKey, value |-> e.value,
                               sources |-> <<p.sourceUrl>>, confidence |-> p.confidence])
          ELSE LET i == mergedIndex(merged, canonicalKey)
                   m == merged[i]
                   m1 == IF p.confidence > m.confidence
                         THEN [m EXCEPT !.value = e.value, !.confidence = p.confidence]
                         ELSE m
                   m2 == IF p.sourceUrl \notin Range(m1.sources)
                         THEN [m1 EXCEPT !.sources = Append(@, p.sourceUrl)]
                         ELSE m1
               IN [merged EXCEPT ![i] = m2]

RECURSIVE mergeProduct(_, _, _)
mergeProduct(merged, p, entries) ==
  IF entries = <<>> THEN merged
  ELSE mergeProduct(mergeEntry(merged, p, Head(entries)), p, Tail(entries))

RECURSIVE mergeSpecs(_, _)
mergeSpecs(merged, products) ==
  IF products = <<>> THEN merged
  ELSE mergeSpecs(mergeProduct(merged, Head(products), Head(products).specs),
                  Tail(products))

VariantSource == "variant:RA"

\* mergedSpecs["Remote Alarm"] = { value: "Yes", sources: ["variant:RA"], confidence: 0.95 }
overlayRA(merged) ==
  LET entry == [key |-> "Remote Alarm", value |-> "Yes",
                sources |-> <<VariantSource>>, confidence |-> VariantConfidence]
  IN IF "Remote Alarm" \in Keys(merged)
     THEN [merged EXCEPT ![mergedIndex(merged, "Remote Alarm")] = entry]
     ELSE Append(merged, entry)

\* products.flatMap(p => F(p))
flatMap(products, F(_)) == flatten([i \in 1..Len(products) |-> F(products[i])])

sectionsOf(p) ==
  [i \in 1..Len(p.verbatimSections) |->
     [heading |-> p.verbatimSections[i].heading, text |-> p.verbatimSections[i].text,
      source |-> p.sourceUrl, confidence |-> p.confidence]]

imagesOf(p) ==
  [i \in 1..Len(p.images) |->
     [url |-> p.images[i], source |-> p.sourceUrl, confidence |-> p.confidence]]

datasheetsOf(p) ==
  [i \in 1..Len(p.datasheets) |-> [url |-> p.datasheets[i], source |-> p.sourceUrl]]

hasCanonicalTitle(p) == p.canonicalTitle # <<>>
hasOemCanonicalTitle(p) == p.sourceType = "oem" /\ p.canonicalTitle # <<>>
hasDisplayTitle(p) == p.displayTitle # <<>>
hasOemDisplayTitle(p) == p.sourceType = "oem" /\ p.displayTitle # <<>>

fallbackTitle(manufacturer, mpn) == <<manufacturer, " ">> \o mpn

resolveCanonicalTitle(products, manufacturer, mpn) ==
  LET oem == SelectSeq(products, hasOemCanonicalTitle)
      any == SelectSeq(products, hasCanonicalTitle)
  IN IF oem # <<>> THEN oem[1].canonicalTitle
     ELSE IF any # <<>> THEN any[1].canonicalTitle
     ELSE fallbackTitle(manufacturer, mpn)

resolveDisplayTitle(products, canonicalTitle) ==
  LET oem == SelectSeq(products, hasOemDisplayTitle)
      any == SelectSeq(products, hasDisplayTitle)
  IN IF oem # <<>> THEN oem[1].displayTitle
     ELSE IF any # <<>> THEN any[1].displayTitle
     ELSE canonicalTitle

RECURSIVE sumConfidence(_)
sumConfidence(products) ==
  IF products = <<>> THEN 0 ELSE Head(products).confidence + sumConfidence(Tail(products))

VariantSection ==
  [heading |-> "Variant", text |-> "Includes remote alarm for system monitoring.",
   source |-> VariantSource, confidence |-> VariantConfidence]

\* the NormalizedProduct returned for a call that does not throw;
\* canonicalMpn is <<>> (no option) or <<mpn>>
normalizeProducts(products, canonicalMpn, disk) ==
  LET work == workingProducts(products, disk)
      base == work[1]
      effectiveMpn == IF canonicalMpn # <<>> THEN canonicalMpn[1] ELSE base.mpn
      isRAVariant == endsWithRA(effectiveMpn)
      canonicalTitle == resolveCanonicalTitle(work, base.manufacturer, effectiveMpn)
      merged == mergeSpecs(<<>>, work)
      sections == flatMap(work, sectionsOf)
  IN [mpn |-> effectiveMpn,
      manufacturer |-> base.manufacturer,
      canonicalTitle |-> canonicalTitle,
      displayTitle |-> resolveDisplayTitle(work, canonicalTitle),
      specs |-> IF isRAVariant THEN overlayRA(merged) ELSE merged,
      verbatimSections |-> IF isRAVariant THEN Append(sections, VariantSection) ELSE sections,
      images |-> flatMap(work, imagesOf),
      datasheets |-> flatMap(work, datasheetsOf),
      overallConfidence |-> Rat(sumConfidence(work), 100 * Len(work))]

\* buildSynthesisInput: values only, no confidences and no sources
buildSynthesisInput(normalized) ==
  [mpn |-> normalized.mpn,
   manufacturer |-> normalized.manufacturer,
   canonicalTitle |-> normalized.canonicalTitle,
   specs |-> [i \in 1..Len(normalized.specs) |->
                [key |-> normalized.specs[i].key, value |-> normalized.specs[i].value]],
   images |-> [i \in 1..Len(normalized.images) |-> normalized.images[i].url],
   datasheets |-> [i \in 1..Len(normalized.datasheets) |-> normalized.datasheets[i].url],
   verbatimDescriptors |->
     [i \in 1..Len(normalized.verbatimSections) |-> normalized.verbatimSections[i].text]]

(***************************************************************************)
(* HTML extraction: what extractFromHtml returns for a document.  A Doc is *)
(* what the guardrails and the cheerio queries find in the html.           *)
(***************************************************************************)
LongTitle == <<"SurgePure", "Mach", "1", "Surge", "Protector">>
ShortTitle == <<"Mach", "1">>

\* displayTitle.length of the titles the model uses (null counts as 0)
titleLength(t) ==
  CASE t = LongTitle -> 33
    [] t = ShortTitle -> 6
    [] OTHER -> 0

DocSpecs ==
  { <<>>,
    <<[key |-> "Voltage", value |-> "120 V"]>>,
    <<[key |-> "Voltage", value |-> "120 V"], [key |-> "Weight", value |-> "Not specified"]>> }

PassingDocs ==
  [guard : {"pass"},
   displayTitle : {<<>>, LongTitle},
   specs : DocSpecs,
   images : {<<>>, <<"img1">>},
   datasheets : {<<>>, <<"ds1">>},
   overviewLength : {0, 41}]

FailingDocs ==
  [guard : {"challenge", "no_mpn", "parse_error"},
   displayTitle : {LongTitle},
   specs : {<<>>},
   images : {<<>>},
   datasheets : {<<>>},
   overviewLength : {0}]

Docs == PassingDocs \cup FailingDocs

\* the documents a pipeline run is checked on
PipelineDocs ==
  FailingDocs
  \cup {d \in PassingDocs :
          \/ d.images = <<>> /\ d.datasheets = <<>> /\ d.overviewLength = 0
          \/ d.images # <<>> /\ d.datasheets = <<>> /\ d.specs = <<>>
          \/ d.images # <<>> /\ d.datasheets # <<>> /\ d.overviewLength > 0
               /\ d.specs = <<>> /\ d.displayTitle # <<>>
          \/ d.images # <<>> /\ d.datasheets # <<>> /\ d.overviewLength > 0
               /\ Len(d.specs) = 2 /\ d.displayTitle # <<>>}

Undefined == 0 - 1

qualityScoreOf(doc) ==
  30 * (IF Len(doc.specs) > 0 THEN 1 ELSE 0)
  + 25 * (IF Len(doc.datasheets) > 0 THEN 1 ELSE 0)
  + 20 * (IF Len(doc.images) > 0 THEN 1 ELSE 0)
  + 15 * (IF doc.displayTitle # <<>> /\ titleLength(doc.displayTitle) > 15 THEN 1 ELSE 0)
  + 10 * (IF doc.overviewLength > 40 THEN 1 ELSE 0)

\* a failure result that reports a quality score of 0
failWithScore(reason, sourceUrl, mpn, manufacturer) ==
  [ok |-> FALSE, reason |-> reason, qualityScore |-> 0, sourceUrl |-> sourceUrl,
   displayTitle |-> <<>>, canonicalTitle |-> fallbackTitle(manufacturer, mpn),
   mpn |-> mpn, manufacturer |-> manufacturer,
   specs |-> <<>>, overviewLength |-> 0, images |-> <<>>, datasheets |-> <<>>]

fail(reason, sourceUrl, mpn, manufacturer) ==
  [ok |-> FALSE, reason |-> reason, qualityScore |-> Undefined, sourceUrl |-> sourceUrl,
   displayTitle |-> <<>>, canonicalTitle |-> fallbackTitle(manufacturer, mpn),
   mpn |-> mpn, manufacturer |-> manufacturer,
   specs |-> <<>>, overviewLength |-> 0, images |-> <<>>, datasheets |-> <<>>]

extractFromHtml(html, doc, sourceUrl, mpn, manufacturer) ==
  IF ~Truthy(html) THEN fail("no_html", sourceUrl, mpn, manufacturer)
  ELSE IF html.len < ChallengeLen /\ doc.guard = "challenge"
       THEN fail("blocked", sourceUrl, mpn, manufacturer)
  ELSE IF doc.guard = "no_mpn" THEN fail("non_product", sourceUrl, mpn, manufacturer)
  ELSE IF doc.guard = "parse_error" THEN fail("parse_error", sourceUrl, mpn, manufacturer)
  ELSE LET qualityScore == qualityScoreOf(doc)
       IN [ok |-> ~(qualityScore < QualityFloor),
           reason |-> IF qualityScore < QualityFloor THEN "low_quality" ELSE "none",
           qualityScore |-> qualityScore,
           sourceUrl |-> sourceUrl,
           displayTitle |-> doc.displayTitle,
           canonicalTitle |-> IF doc.displayTitle = LongTitle THEN LongTitle
                              ELSE fallbackTitle(manufacturer, mpn),
           mpn |-> mpn, manufacturer |-> manufacturer,
           specs |-> doc.specs, overviewLength |-> doc.overviewLength,
           images |-> doc.images, datasheets |-> doc.datasheets]

\* extraction.qualityScore ?? 0
scoreOrZero(extraction) ==
  IF extraction.qualityScore = Undefined THEN 0 ELSE extraction.qualityScore

(***************************************************************************)
(* The environment of one pipeline run: what discovery returns, what is on *)
(* disk, what the LLM answers.                                             *)
(***************************************************************************)
Urls == <<"u1", "u2", "u3", "u4">>

\* discoverProductSources returns the ranked URLs: the first is the primary
\* URL, the next (at most three) are the backups
DiscoveryResults ==
  LET shapes == (0..(1 + MaxBackupUrls)) \X {"high", "medium", "low"}
      \* without a primary the confidence is medium or low, never high
      returnable == {s \in shapes : s[1] = 0 => s[2] # "high"}
  IN { [primaryProductUrl |-> IF s[1] = 0 THEN "" ELSE Urls[1],
        backupUrls |-> SubSeq(Urls, 2, s[1]),
        pdfUrls |-> <<>>,
        confidence |-> s[2]] : s \in returnable }

Raw1 ==
  [electrical_specs |-> <<[key |-> "voltage_raw", value |-> "240 V"]>>,
   mechanical_specs |-> <<[key |-> "weight_raw", value |-> "2 lb"]>>,
   safety_and_compliance |-> <<>>,
   overview |-> "Mach 1 overview",
   systemDescription |-> "",
   bullets |-> <<"Fuse-link safety">>]

Raw2 ==
  [electrical_specs |-> <<[key |-> "system_voltage", value |-> "120/240 V"],
                          [key |-> "voltage_raw", value |-> ""]>>,
   mechanical_specs |-> <<>>,
   safety_and_compliance |-> <<[key |-> "remote_alarm", value |-> "No"]>>,
   overview |-> "",
   systemDescription |-> "",
   bullets |-> <<>>]

DiskStates ==
  { [state |-> "absent", raw |-> None],
    [state |-> "corrupt", raw |-> None],
    [state |-> "ok", raw |-> Raw1] }

VoltageFeature == <<CanonicalVoltage, ":", "120 V">>
WeightFeature == <<"Weight", ":", "2 lb">>
InventedFeature == <<"Surge Rating", ":", "9 kA">>
PlainFeature == <<"Rugged housing">>
RemoteAlarmFeature == <<"Remote Alarm", ":", "Yes">>

LlmObject(keyFeatures, overview) ==
  [keyFeatures |-> keyFeatures, overview |-> overview,
   shortDescription |-> overview, longDescription |-> overview,
   bulletHighlights |-> <<>>, seoDescription |-> 120, seoTrim |-> 0,
   disclaimers |-> <<>>]

\* a response extractJson cannot parse
Malformed == [malformed |-> TRUE]

\* the responses a pipeline run is checked on
PipelineLlm ==
  { LlmObject(kf, "Surge protection overview.") :
      kf \in { <<>>, <<VoltageFeature>>, <<VoltageFeature, WeightFeature>>,
               <<InventedFeature>>, <<VoltageFeature, RemoteAlarmFeature>> } }
  \cup {LlmObject(<<VoltageFeature>>, ""), Malformed}

(***************************************************************************)
(* State.                                                                  *)
(***************************************************************************)
VARIABLES
  \* runProductPipeline
  mpn,            \* input.mpn
  pc,             \* where the run is: discover, crawlLoop, crawling, extract,
                  \* normalize, synthesize, done (returned), thrown
  discovery,      \* result.discovery
  urlIdx,         \* position of the for loop in urlsToTry.slice(0, 3)
  crawl,          \* the local crawl: the last CrawlResult
  extraction,     \* the ExtractResult
  normalized,     \* the NormalizedProduct
  synthesis,      \* result.synthesis
  final,          \* result.final
  finalConfidence,\* the local finalConfidence, before rounding
  calls,          \* history: the stages invoked, in order
  crawled,        \* history: the URLs handed to crawlPage, in order
  htmls,          \* history: the html of each CrawlResult returned: null, empty, html
  discoveredFor,  \* history: the mpn argument of discoverProductSources
  extractArgs,    \* history: the arguments of extractFromHtml
  \* crawlPage and crawlWithPlaywright
  cpc,            \* idle, fetch, launch, newPage, goto, close, returned, thrown
  crawlUrl,       \* the url argument
  attempt,        \* the loop counter of the fast fetch
  fallbackReason, \* the local fallbackReason ("none" for undefined)
  browser,        \* none, open, closed
  pending,        \* the value crawlWithPlaywright returns once finally has run
  crawlRet,       \* the CrawlResult returned
  crawlOps,       \* history: the fetches and browser launches of this call, in order
  \* two calls of normalizeProducts by one caller
  callerProducts, \* the caller's ExtractedProduct list: the objects the calls share
  callerOptions,  \* <<>> for no options, <<mpn>> for { canonicalMpn: mpn }
  diskFile,       \* the state of the datasheet file of the base MPN
  firstResult,    \* what the first call returned
  secondResult,   \* what the second call returned
  npc,            \* first, second, done, thrown; off outside SpecNormalize
  \* one call of synthesizeProductContent
  synInput,       \* the SynthesisInput
  synOutput,      \* the SynthesisOutput returned
  spc,            \* call, returned, thrown; off outside SpecSynthesize
  \* enrichHandler, the HTTP batch handler
  reqBody,        \* req.body: [valid, mpns]
  hIdx,           \* position of the for loop in mpns
  results,        \* the local results array
  response,       \* what res.json sent: [status, results], None before
  hOutcomes,      \* history: how each runProductPipeline call ended
  hpc,            \* start, loop, done; off outside SpecBatch
  \* startEnrichment, the batch loop of the UI
  items,          \* the items argument
  data,           \* the React state data: the status of each row
  uIdx,           \* the loop counter i
  isProcessing,   \* the React state isProcessing
  upc,            \* idle, loop, done; off outside SpecBatch
  \* one call of discoverProductSources
  dpc,            \* query, fallback, returned, thrown; off outside SpecDiscovery
  queries,        \* history: the queries sent to the search API, in order
  searchResults,  \* what the first query returned
  pdfResults,     \* what the fallback query returned
  dResult,        \* the DiscoveryResult returned
  \* one call of extractFromHtml
  xpc,            \* call, returned; off outside SpecExtract
  xArgs,          \* the arguments: the html and what the document holds
  xResult,        \* the ExtractResult returned
  \* one call of extractFromPdf
  fpc,            \* fetch, parse, rows, map, returned, thrown; off outside SpecPdf
  pdfArgs,        \* the arguments: [targetModel]
  pdfDoc,         \* what the downloaded PDF holds
  pdfCalls,       \* history: the network and LLM calls made, in order
  pdfRet,         \* what the call returned, or the error it threw
  \* handleFileUpload and the startEnrichment loops it starts, on data and
  \* isProcessing
  uploadCount,    \* history: the files chosen so far
  parsing,        \* the handleFileUpload calls awaiting parseExcelFile, each with
                  \* its file's rows and the isProcessing of its closure
  loops,          \* the startEnrichment calls awaiting enrichComponentInfo, each
                  \* with its items and its loop counter i
  uiError         \* the React state error: "null" or a message

pipelineVars == <<mpn, pc, discovery, urlIdx, crawl, extraction, normalized, synthesis,
                  final, finalConfidence, calls, crawled, htmls, discoveredFor, extractArgs>>
crawlVars ==
  <<cpc, crawlUrl, attempt, fallbackReason, browser, pending, crawlRet, crawlOps>>

normalizeVars == <<callerProducts, callerOptions, diskFile, firstResult, secondResult, npc>>
synthVars == <<synInput, synOutput, spc>>
handlerVars == <<reqBody, hIdx, results, response, hOutcomes, hpc>>
uiVars == <<items, data, uIdx, isProcessing, upc>>
discoveryVars == <<dpc, queries, searchResults, pdfResults, dResult>>
extractVars == <<xpc, xArgs, xResult>>
pdfVars == <<fpc, pdfArgs, pdfDoc, pdfCalls, pdfRet>>
uploadVars == <<uploadCount, parsing, loops, uiError>>

\* the services that are also called on their own
serviceVars == <<discoveryVars, extractVars, pdfVars, uploadVars>>

vars == <<pipelineVars, crawlVars, normalizeVars, synthVars, handlerVars, uiVars, serviceVars>>

outsidePipeline == <<normalizeVars, synthVars, handlerVars, uiVars, serviceVars>>

\* the variables of the pipeline, of the two bare calls and of the batch loops
outsideServices ==
  <<pipelineVars, crawlVars, normalizeVars, synthVars, handlerVars, uiVars, uploadVars>>

\* the variables of a part that a specification does not run
PipelineOff ==
  /\ mpn = <<>> /\ pc = "off"
  /\ discovery = None /\ urlIdx = 0 /\ crawl = None /\ extraction = None
  /\ normalized = None /\ synthesis = None /\ final = None /\ finalConfidence = None
  /\ calls = <<>> /\ crawled = <<>> /\ htmls = <<>>
  /\ discoveredFor = None /\ extractArgs = None
  /\ cpc = "idle" /\ crawlUrl = "" /\ attempt = 0 /\ fallbackReason = "none"
  /\ browser = "none" /\ pending = None /\ crawlRet = None /\ crawlOps = <<>>

NormalizeOff ==
  /\ callerProducts = <<>> /\ callerOptions = <<>> /\ diskFile = None
  /\ firstResult = None /\ secondResult = None /\ npc = "off"

SynthesizeOff == synInput = None /\ synOutput = None /\ spc = "off"

BatchOff ==
  /\ reqBody = None /\ hIdx = 0 /\ results = <<>> /\ response = None
  /\ hOutcomes = <<>> /\ hpc = "off"
  /\ items = <<>> /\ data = <<>> /\ uIdx = 0 /\ isProcessing = FALSE /\ upc = "off"

DiscoveryOff ==
  /\ dpc = "off" /\ queries = <<>> /\ searchResults = <<>> /\ pdfResults = <<>>
  /\ dResult = None

ExtractOff == xpc = "off" /\ xArgs = None /\ xResult = None

PdfOff ==
  /\ fpc = "off" /\ pdfArgs = None /\ pdfDoc = None /\ pdfCalls = <<>> /\ pdfRet = None

UploadOff == uploadCount = 0 /\ parsing = <<>> /\ loops = <<>> /\ uiError = "null"

ServicesOff == DiscoveryOff /\ ExtractOff /\ PdfOff /\ UploadOff

canonicalMpn == canonicalMpnOf(mpn)
isRAVariant == endsWithRA(canonicalMpn)
lookupMpn == lookupMpnOf(mpn)

Init ==
  /\ mpn \in Mpns
  /\ pc = "discover"
  /\ discovery = None /\ urlIdx = 0 /\ crawl = None /\ extraction = None
  /\ normalized = None /\ synthesis = None /\ final = None /\ finalConfidence = None
  /\ calls = <<>> /\ crawled = <<>> /\ htmls = <<>>
  /\ discoveredFor = None /\ extractArgs = None
  /\ cpc = "idle" /\ crawlUrl = "" /\ attempt = 0 /\ fallbackReason = "none"
  /\ browser = "none" /\ pending = None /\ crawlRet = None /\ crawlOps = <<>>
  /\ NormalizeOff /\ SynthesizeOff /\ BatchOff /\ ServicesOff

(***************************************************************************)
(* crawlPage.                                                              *)
(***************************************************************************)
FetchOutcomes ==
  {[kind |-> k, page |-> EmptyPage] : k \in {"throw", "http_error"}}
  \cup {[kind |-> "ok", page |-> p] : p \in Pages}

\* tryFetchOnce: the html, or None for null
tryFetchOnce(outcome) ==
  IF outcome.kind = "ok" /\ isValidHtml(outcome.page) THEN outcome.page ELSE None

\* why one fast attempt is given up; "none" when it passes every check
fetchFailure(tryResult) ==
  IF tryResult = None THEN "fetch_failed"
  ELSE IF ~looksLikeProductPage(tryResult) THEN "non_product"
  ELSE IF ~hasUsableProductSignals(tryResult) THEN "non_product"
  ELSE "none"

fastResult(url, html) ==
  [finalUrl |-> url, html |-> html, usedPlaywright |-> FALSE,
   contentType |-> "header", crawlConfidence |-> "high", fallbackReason |-> "none"]

\* the loop without its second pass: the browser follows the first failure
TryFetchNoRetry ==
  /\ cpc = "fetch"
  /\ crawlOps' = Append(crawlOps, "fetch")
  /\ \E outcome \in FetchOutcomes :
       LET tryResult == tryFetchOnce(outcome)
           why == fetchFailure(tryResult)
       IN IF why = "none"
          THEN /\ crawlRet' = fastResult(crawlUrl, tryResult)
               /\ cpc' = "returned"
               /\ UNCHANGED <<attempt, fallbackReason>>
          ELSE /\ fallbackReason' = why
               /\ attempt' = attempt + 1
               /\ cpc' = "launch"
               /\ UNCHANGED crawlRet
  /\ UNCHANGED <<crawlUrl, browser, pending, pipelineVars>>
  /\ UNCHANGED outsidePipeline

\* one pass of the for loop of crawlPage: await tryFetchOnce(url) and the checks
TryFetch ==
  /\ cpc = "fetch"
  /\ crawlOps' = Append(crawlOps, "fetch")
  /\ \E outcome \in FetchOutcomes :
       LET tryResult == tryFetchOnce(outcome)
           why == fetchFailure(tryResult)
       IN IF why = "none"
          THEN /\ crawlRet' = fastResult(crawlUrl, tryResult)
               /\ cpc' = "returned"
               /\ UNCHANGED <<attempt, fallbackReason>>
          ELSE /\ fallbackReason' = why
               /\ attempt' = attempt + 1
               /\ cpc' = IF attempt + 1 < FetchAttempts THEN "fetch" ELSE "launch"
               /\ UNCHANGED crawlRet
  /\ UNCHANGED <<crawlUrl, browser, pending, pipelineVars>>
  /\ UNCHANGED outsidePipeline

\* crawlWithPlaywright: await chromium.launch(), outside the try block
Launch ==
  /\ cpc = "launch"
  /\ crawlOps' = Append(crawlOps, "launch")
  /\ \/ browser' = "open" /\ cpc' = "newPage"
     \/ cpc' = "thrown" /\ UNCHANGED browser
  /\ UNCHANGED <<crawlUrl, attempt, fallbackReason, pending, crawlRet, pipelineVars>>
  /\ UNCHANGED outsidePipeline

\* await browser.newPage(), outside the try block
NewPage ==
  /\ cpc = "newPage"
  /\ \/ cpc' = "goto"
     \/ cpc' = "thrown"
  /\ UNCHANGED <<crawlUrl, attempt, fallbackReason, browser, pending, crawlRet, crawlOps,
                 pipelineVars>>
  /\ UNCHANGED outsidePipeline

\* the try block without the usable-signal check
renderedUnchecked(url, html, reason) ==
  [finalUrl |-> url, html |-> html, usedPlaywright |-> TRUE,
   contentType |-> "text/html", fallbackReason |-> reason,
   crawlConfidence |-> "medium"]

renderedResult(url, html, reason) ==
  IF ~hasUsableProductSignals(html)
  THEN [finalUrl |-> url, html |-> html, usedPlaywright |-> TRUE,
        contentType |-> "text/html", fallbackReason |-> "non_product",
        crawlConfidence |-> "low"]
  ELSE [finalUrl |-> url, html |-> html, usedPlaywright |-> TRUE,
        contentType |-> "text/html", fallbackReason |-> reason,
        crawlConfidence |-> IF hasUsableProductSignals(html) THEN "medium" ELSE "low"]

\* the catch branch with the confidence of a rendered page
navigationFailedMedium(url, reason) ==
  [finalUrl |-> url, html |-> None, usedPlaywright |-> TRUE,
   contentType |-> "null",
   fallbackReason |-> IF reason # "none" THEN reason ELSE "captcha_or_js",
   crawlConfidence |-> "medium"]

navigationFailed(url, reason) ==
  [finalUrl |-> url, html |-> None, usedPlaywright |-> TRUE,
   contentType |-> "null",
   fallbackReason |-> IF reason # "none" THEN reason ELSE "captcha_or_js",
   crawlConfidence |-> "low"]

\* the try block: page.goto, page.content, the checks; and its catch
Navigate ==
  /\ cpc = "goto"
  /\ \/ \E html \in RenderedPages :
          pending' = renderedResult(crawlUrl, html, fallbackReason)
     \/ pending' = navigationFailed(crawlUrl, fallbackReason)
  /\ cpc' = "close"
  /\ UNCHANGED <<crawlUrl, attempt, fallbackReason, browser, crawlRet, crawlOps, pipelineVars>>
  /\ UNCHANGED outsidePipeline

\* the finally block: await browser.close(); a rejected close replaces the return
Close ==
  /\ cpc = "close"
  /\ \/ browser' = "closed" /\ crawlRet' = pending /\ cpc' = "returned"
     \/ browser' \in {"open", "closed"} /\ cpc' = "thrown" /\ UNCHANGED crawlRet
  /\ UNCHANGED <<crawlUrl, attempt, fallbackReason, pending, crawlOps, pipelineVars>>
  /\ UNCHANGED outsidePipeline

(***************************************************************************)
(* runProductPipeline.                                                     *)
(***************************************************************************)
\* the candidate URLs without the slice
urlsToTryAll(d) ==
  (IF d.primaryProductUrl # "" THEN <<d.primaryProductUrl>> ELSE <<>>) \o d.backupUrls

\* the candidate URLs cut to the primary alone
urlsToTryPrimaryOnly(d) ==
  LET all == (IF d.primaryProductUrl # "" THEN <<d.primaryProductUrl>> ELSE <<>>)
             \o d.backupUrls
  IN SubSeq(all, 1, Min(1, Len(all)))

\* [primaryProductUrl, ...backupUrls].filter(Boolean).slice(0, 3)
urlsToTry(d) ==
  LET all == (IF d.primaryProductUrl # "" THEN <<d.primaryProductUrl>> ELSE <<>>)
             \o d.backupUrls
  IN SubSeq(all, 1, Min(MaxCrawlUrls, Len(all)))

\* an early result that carries no failureReason code
earlyFinalWithoutReason(confidence, failureReason) ==
  [usable |-> FALSE, confidence |-> confidence, failureReason |-> "none"]

earlyFinal(confidence, failureReason) ==
  [usable |-> FALSE, confidence |-> confidence, failureReason |-> failureReason]

\* 1. DISCOVERY: discoverProductSources(lookupMpn, manufacturer), which may reject
Discover ==
  /\ pc = "discover"
  /\ calls' = Append(calls, "discovery")
  /\ discoveredFor' = lookupMpn
  /\ \/ pc' = "thrown" /\ UNCHANGED <<discovery, final, urlIdx>>
     \/ \E d \in DiscoveryResults :
          /\ discovery' = d
          /\ IF d.primaryProductUrl = "" /\ Len(d.backupUrls) = 0
             THEN /\ final' = earlyFinal(Hundredths(0), "NO_PRODUCT_URLS")
                  /\ pc' = "done"
                  /\ UNCHANGED urlIdx
             ELSE /\ pc' = "crawlLoop"
                  /\ urlIdx' = 1
                  /\ UNCHANGED final
  /\ UNCHANGED <<mpn, crawl, extraction, normalized, synthesis, finalConfidence, crawled, htmls,
                 extractArgs, crawlVars>>
  /\ UNCHANGED outsidePipeline

\* 2. CRAWL: the call crawlPage(url) of the for loop
CrawlCall ==
  /\ pc = "crawlLoop"
  /\ pc' = "crawling"
  /\ calls' = Append(calls, "crawl")
  /\ crawled' = Append(crawled, urlsToTry(discovery)[urlIdx])
  /\ crawlUrl' = urlsToTry(discovery)[urlIdx]
  /\ cpc' = "fetch" /\ attempt' = 0 /\ fallbackReason' = "none"
  /\ browser' = "none" /\ pending' = None /\ crawlRet' = None /\ crawlOps' = <<>>
  /\ UNCHANGED <<mpn, discovery, urlIdx, crawl, extraction, normalized, synthesis, final,
                 finalConfidence, htmls, discoveredFor, extractArgs>>
  /\ UNCHANGED outsidePipeline

htmlKind(html) == IF html = None THEN "null" ELSE IF html.len = 0 THEN "empty" ELSE "html"

\* crawlPage settles: break on html, next URL, or CRAWL_FAILED; a rejection
\* of crawlPage is not caught
CrawlSettle ==
  /\ pc = "crawling"
  /\ cpc \in {"returned", "thrown"}
  /\ cpc' = "idle"
  /\ IF cpc = "thrown"
     THEN pc' = "thrown" /\ UNCHANGED <<crawl, urlIdx, final, htmls>>
     ELSE /\ crawl' = crawlRet
          /\ htmls' = Append(htmls, htmlKind(crawlRet.html))
          /\ IF Truthy(crawlRet.html)
             THEN pc' = "extract" /\ UNCHANGED <<urlIdx, final>>
             ELSE IF urlIdx < Len(urlsToTry(discovery))
                  THEN pc' = "crawlLoop" /\ urlIdx' = urlIdx + 1 /\ UNCHANGED final
                  ELSE /\ final' = earlyFinal(Hundredths(0), "CRAWL_FAILED")
                       /\ pc' = "done"
                       /\ UNCHANGED urlIdx
  /\ UNCHANGED <<mpn, discovery, extraction, normalized, synthesis, finalConfidence, calls,
                 crawled, discoveredFor, extractArgs,
                 crawlUrl, attempt, fallbackReason, browser, pending, crawlRet, crawlOps>>
  /\ UNCHANGED outsidePipeline

\* 3. EXTRACT
Extract ==
  /\ pc = "extract"
  /\ calls' = Append(calls, "extraction")
  /\ extractArgs' = [html |-> crawl.html, sourceUrl |-> crawl.finalUrl, mpn |-> lookupMpn,
                     manufacturer |-> Manufacturer]
  /\ \E doc \in PipelineDocs :
       LET e == extractFromHtml(crawl.html, doc, crawl.finalUrl, lookupMpn, Manufacturer)
       IN /\ extraction' = e
          /\ IF ~e.ok \/ scoreOrZero(e) < QualityFloor
             THEN /\ final' = earlyFinal(Hundredths(scoreOrZero(e)), "LOW_EXTRACTION_QUALITY")
                  /\ pc' = "done"
             ELSE pc' = "normalize" /\ UNCHANGED final
  /\ UNCHANGED <<mpn, discovery, urlIdx, crawl, normalized, synthesis, finalConfidence,
                 crawled, htmls, discoveredFor, crawlVars>>
  /\ UNCHANGED outsidePipeline

\* { sourceType: "distributor", confidence: qualityScore ?? 0, ...extraction, images }
pipelineProduct(e) ==
  [mpn |-> e.mpn,
   manufacturer |-> e.manufacturer,
   sourceUrl |-> e.sourceUrl,
   sourceType |-> "distributor",
   confidence |-> scoreOrZero(e),
   canonicalTitle |-> e.canonicalTitle,
   displayTitle |-> e.displayTitle,
   specs |-> e.specs,
   verbatimSections |-> <<>>,
   images |-> e.images,
   datasheets |-> e.datasheets,
   rawDatasheet |-> None]

\* 4. NORMALIZE: normalizeProducts([product], { canonicalMpn })
Normalize ==
  /\ pc = "normalize"
  /\ calls' = Append(calls, "normalization")
  /\ \E disk \in DiskStates :
       LET products == <<pipelineProduct(extraction)>>
       IN IF normalizeThrows(products, disk)
          THEN pc' = "thrown" /\ UNCHANGED normalized
          ELSE /\ normalized' = normalizeProducts(products, <<canonicalMpn>>, disk)
               /\ pc' = "synthesize"
  /\ UNCHANGED <<mpn, discovery, urlIdx, crawl, extraction, synthesis, final, finalConfidence,
                 crawled, htmls, discoveredFor, extractArgs, crawlVars>>
  /\ UNCHANGED outsidePipeline

discoveryConfidenceOf(d) ==
  IF d.confidence = "high" THEN 90 ELSE IF d.confidence = "medium" THEN 60 ELSE 30

crawlConfidenceOf(c) == IF c.usedPlaywright THEN 60 ELSE 85

\* 0.25 dc + 0.20 cc + 0.30 ec + 0.25 sc, dc, cc and ec in hundredths, sc a rational
finalConfidenceOf(dc, cc, ec, sc) ==
  Rat((25 * dc + 20 * cc + 30 * ec) * sc.d + 2500 * sc.n, 10000 * sc.d)

\* Number(x.toFixed(2)): the nearest hundredth, a tie going up
toFixed2(x) == Hundredths((200 * x.n + x.d) \div (2 * x.d))

\* the keyFeatures with a colon, split into name and value
specTableOf(keyFeatures) ==
  LET withColon == SelectSeq(keyFeatures, LAMBDA f : indexOfColon(f) # 0)
  IN [i \in 1..Len(withColon) |->
        [name |-> labelOf(withColon[i]), value |-> valueOf(withColon[i])]]

\* a text as the pieces it is concatenated from
pieces(text) == IF text = "" THEN <<>> ELSE <<text>>

RaLine ==
  " This RA variant includes a remote alarm feature for system monitoring and alerting."

\* text += raLine, only for a non-empty text
withRaLine(ps) == IF ps # <<>> THEN Append(ps, RaLine) ELSE ps

includesSurge(title, overview) ==
  \/ \E i \in 1..Len(title) : title[i] \in {"SurgePure", "Surge"}
  \/ overview = "Surge protection overview."

fullFinal(syn, e, c, exact) ==
  [canonicalTitle |-> syn.canonicalTitle,
   displayTitle |-> syn.displayTitle,
   keyFeatures |-> syn.keyFeatures,
   overview |-> pieces(syn.overview),
   shortDescription |-> pieces(syn.shortDescription),
   longDescription |-> pieces(syn.longDescription),
   bulletHighlights |-> syn.bulletHighlights,
   seoDescription |-> syn.seoDescription,
   disclaimers |-> syn.disclaimers,
   specTable |-> specTableOf(syn.keyFeatures),
   productType |-> IF includesSurge(syn.displayTitle, syn.overview)
                   THEN "Surge Protection Device" ELSE "null",
   usable |-> RatGeq(exact, Hundredths(UsableThreshold)),
   confidence |-> toFixed2(exact),
   failureReason |-> "none",
   images |-> e.images,
   datasheets |-> e.datasheets,
   sourceUrl |-> c.finalUrl]

\* 7. RA VARIANT INJECTION
raPatch(f, canonical) ==
  [f EXCEPT !.displayTitle = canonical,
            !.keyFeatures = Append(@, RemoteAlarmFeature),
            !.specTable = Append(@, [name |-> <<"Remote Alarm">>, value |-> <<"Yes">>]),
            !.overview = withRaLine(@),
            !.shortDescription = withRaLine(@),
            !.longDescription = withRaLine(@)]

\* what the run does with the SynthesisOutput syn: steps 6 and 7
Finish(syn) ==
  LET exact == finalConfidenceOf(discoveryConfidenceOf(discovery), crawlConfidenceOf(crawl),
                                 scoreOrZero(extraction), syn.confidence)
      f == fullFinal(syn, extraction, crawl, exact)
  IN /\ synthesis' = syn
     /\ finalConfidence' = exact
     /\ final' = IF isRAVariant /\ f.usable THEN raPatch(f, canonicalMpn) ELSE f
     /\ pc' = "done"

\* 5. SYNTHESIZE, 6. FINAL CONFIDENCE, 7. RA VARIANT INJECTION
Synthesize ==
  /\ pc = "synthesize"
  /\ LET input == buildSynthesisInput(normalized)
     IN IF ~callsLlm(input)
        THEN /\ calls' = Append(calls, "synthesis")
             /\ Finish(synthesizeProductContent(input, Malformed))
        ELSE /\ calls' = calls \o <<"synthesis", "llm">>
             /\ \E llm \in PipelineLlm :
                  IF llm = Malformed
                  THEN pc' = "thrown" /\ UNCHANGED <<synthesis, final, finalConfidence>>
                  ELSE Finish(synthesizeProductContent(input, llm))
  /\ UNCHANGED <<mpn, discovery, urlIdx, crawl, extraction, normalized, crawled, htmls,
                 discoveredFor, extractArgs, crawlVars>>
  /\ UNCHANGED outsidePipeline

Next ==
  \/ Discover
  \/ CrawlCall
  \/ TryFetch
  \/ Launch
  \/ NewPage
  \/ Navigate
  \/ Close
  \/ CrawlSettle
  \/ Extract
  \/ Normalize
  \/ Synthesize

Spec == Init /\ [][Next]_vars

(***************************************************************************)
(* Properties of a pipeline run, checked under Spec.                       *)
(***************************************************************************)
returned == pc = "done"

\* C1: every final that runProductPipeline returns, early or fully synthesized,
\* has usable true exactly when its reported confidence is at least 0.65
C1_UsableIffReportedConfidence ==
  returned => (final.usable <=> RatGeq(final.confidence, Hundredths(UsableThreshold)))

\* C6: crawlPage never throws: whatever the fetches, the launch, the page
\* creation, the navigation and the close do, it ends by returning
C6_CrawlPageNeverThrows == cpc # "thrown"

\* C7: when a crawl has returned or thrown, the browser it launched is closed
C7_BrowserClosedOnExit == cpc \in {"returned", "thrown"} => browser # "open"

\* C8: a CrawlResult returned by crawlPage with html null has crawlConfidence low
C8_NullHtmlIsLow ==
  (cpc = "returned" /\ crawlRet.html = None) => crawlRet.crawlConfidence = "low"

C8_Witness ==
  /\ cpc = "returned" /\ crawlRet.html = None
  /\ crawlRet.fallbackReason = "fetch_failed" /\ browser = "closed"

noUrls == discovery # None /\ discovery.primaryProductUrl = "" /\ Len(discovery.backupUrls) = 0

everyCrawlNull ==
  /\ discovery # None /\ ~noUrls
  /\ Len(htmls) = Len(urlsToTry(discovery))
  /\ \A i \in 1..Len(htmls) : htmls[i] = "null"

extractionFailed ==
  extraction # None /\ (~extraction.ok \/ scoreOrZero(extraction) < QualityFloor)

invoked(stage) == stage \in Range(calls)

\* C10: a run that ends at discovery without URLs, at crawls that all returned
\* null html, or at an extraction that is not ok or scores below 0.30 returns a
\* final with usable false, the failureReason of that stage and confidence 0
\* (the quality score for the extraction), and has invoked no later stage
C10_EarlyFailure ==
  returned =>
    /\ noUrls =>
         /\ final = [usable |-> FALSE, confidence |-> Hundredths(0),
                     failureReason |-> "NO_PRODUCT_URLS"]
         /\ calls = <<"discovery">>
    /\ everyCrawlNull =>
         /\ final = [usable |-> FALSE, confidence |-> Hundredths(0),
                     failureReason |-> "CRAWL_FAILED"]
         /\ ~invoked("extraction") /\ ~invoked("normalization")
         /\ ~invoked("synthesis") /\ ~invoked("llm")
    /\ extractionFailed =>
         /\ final = [usable |-> FALSE,
                     confidence |-> Hundredths(scoreOrZero(extraction)),
                     failureReason |-> "LOW_EXTRACTION_QUALITY"]
         /\ calls[Len(calls)] = "extraction"
         /\ ~invoked("normalization") /\ ~invoked("synthesis") /\ ~invoked("llm")

C10_Witness ==
  /\ returned /\ extractionFailed /\ extraction.reason = "low_quality"
  /\ final.confidence = Hundredths(15)
  /\ Len(htmls) = 3

\* the URLs discovery emitted, in rank order: the primary, then the backups
candidates ==
  (IF discovery.primaryProductUrl # "" THEN <<discovery.primaryProductUrl>> ELSE <<>>)
  \o discovery.backupUrls

allNull == \A i \in 1..Len(htmls) : htmls[i] = "null"

\* C11: the run crawls the primary URL and then the backups in rank order, at
\* most three URLs in all, and stops at the first CrawlResult whose html is
\* not null: no URL is crawled after it, and the html handed to extraction is
\* the html of that result
C11_CrawlsInRankOrderUntilHtml ==
  /\ discovery = None => crawled = <<>>
  /\ discovery # None =>
       /\ Len(crawled) <= 3
       /\ Len(crawled) <= Len(candidates)
       /\ crawled = SubSeq(candidates, 1, Len(crawled))
  /\ Len(htmls) <= Len(crawled) /\ Len(crawled) <= Len(htmls) + 1
  /\ \A i \in 1..Len(htmls) :
       htmls[i] # "null" => i = Len(htmls) /\ Len(crawled) = Len(htmls)
  /\ extractArgs # None =>
       /\ htmls # <<>> /\ htmls[Len(htmls)] # "null"
       /\ crawl.html # None /\ extractArgs.html = crawl.html
       /\ extractArgs.sourceUrl = crawled[Len(crawled)]

C11_Witness ==
  /\ discovery # None /\ Len(candidates) = 4
  /\ crawled = <<"u1", "u2", "u3">>
  /\ htmls = <<"null", "null", "html">>
  /\ extractArgs # None /\ extractArgs.html = crawl.html

crawlFailed == returned /\ final.failureReason = "CRAWL_FAILED"

\* C12 as stated: a run ends with CRAWL_FAILED only when every candidate URL
\* that discovery emitted, the primary and every backup, was crawled and
\* returned null html
C12_CrawlFailedAfterEveryCandidate ==
  crawlFailed => crawled = candidates /\ Len(htmls) = Len(crawled) /\ allNull

\* C12: a run ends with CRAWL_FAILED only when each of the first three
\* candidate URLs that discovery emitted (all of them when there are fewer)
\* was crawled and returned null html
C12_CrawlFailedAfterTriedCandidates ==
  crawlFailed =>
    /\ crawled = SubSeq(candidates, 1, Min(3, Len(candidates)))
    /\ Len(htmls) = Len(crawled) /\ allNull

C12_Witness ==
  /\ crawlFailed /\ discovery # None /\ Len(candidates) = 4
  /\ crawled = <<"u1", "u2", "u3">> /\ htmls = <<"null", "null", "null">>

\* the CrawlResult of the catch branch: the browser was used and no html came
navigationThrew == cpc = "returned" /\ crawlRet.usedPlaywright /\ crawlRet.html = None

\* C13: when crawlPage escalates to the browser and the navigation throws,
\* the CrawlResult has html null, crawlConfidence low and fallbackReason
\* captcha_or_js, whatever made the two fast attempts fail
C13_NavigationThrowIsCaptchaOrJs ==
  navigationThrew =>
    /\ crawlRet.crawlConfidence = "low"
    /\ crawlRet.fallbackReason = "captcha_or_js"

stripRA(m) == SubSeq(m, 1, Len(m) - 2)

RemoteAlarmRow == [name |-> <<"Remote Alarm">>, value |-> <<"Yes">>]

\* the final as step 6 builds it, before any RA injection
unpatched ==
  /\ final.displayTitle = synthesis.displayTitle
  /\ final.keyFeatures = synthesis.keyFeatures
  /\ final.specTable = specTableOf(synthesis.keyFeatures)
  /\ final.overview = pieces(synthesis.overview)
  /\ final.shortDescription = pieces(synthesis.shortDescription)
  /\ final.longDescription = pieces(synthesis.longDescription)

\* C14: for an MPN ending in RA, discovery and HTML extraction are called with
\* the base MPN (RA removed) while the normalized product keeps the RA
\* suffix; a usable final has the RA MPN as displayTitle and a Remote Alarm:
\* Yes entry in keyFeatures and in specTable; a final that is not usable
\* carries none of the patches
C14_RAVariantPatches ==
  isRAVariant =>
    /\ discoveredFor # None => discoveredFor = stripRA(canonicalMpn)
    /\ extractArgs # None => extractArgs.mpn = stripRA(canonicalMpn)
    /\ extraction # None => extraction.mpn = stripRA(canonicalMpn)
    /\ normalized # None => normalized.mpn = canonicalMpn
    /\ (returned /\ final.usable) =>
         /\ final.displayTitle = canonicalMpn
         /\ final.keyFeatures # <<>>
         /\ final.keyFeatures[Len(final.keyFeatures)] = RemoteAlarmFeature
         /\ final.specTable # <<>>
         /\ final.specTable[Len(final.specTable)] = RemoteAlarmRow
    /\ (returned /\ ~final.usable /\ synthesis # None) => unpatched

C14_Witness ==
  /\ isRAVariant /\ returned /\ final.usable
  /\ discoveredFor = <<"M", "-", "1">>
  /\ final.displayTitle = <<"M", "-", "1", "R", "A">>
  /\ RemoteAlarmRow \in Range(final.specTable)

C14_WitnessNotUsable ==
  isRAVariant /\ returned /\ synthesis # None /\ ~final.usable /\ unpatched

endsWithRaLine(ps) == ps # <<>> /\ ps[Len(ps)] = RaLine

\* C15: when the variant is RA and the final is usable, the fixed RA sentence
\* is appended to final.overview, final.shortDescription and
\* final.longDescription for every synthesis output, also one whose overview,
\* shortDescription or longDescription is empty
C15_RaSentenceOnEveryText ==
  (returned /\ isRAVariant /\ final.usable) =>
    /\ endsWithRaLine(final.overview)
    /\ endsWithRaLine(final.shortDescription)
    /\ endsWithRaLine(final.longDescription)

(***************************************************************************)
(* normalizeProducts called twice by one caller, on the same objects.      *)
(***************************************************************************)
BaseMpn == <<"M", "-", "1">>
RaMpn == <<"M", "-", "1", "R", "A">>

ExtractedProduct(url, type, confidence, title, specs, raw) ==
  [mpn |-> BaseMpn,
   manufacturer |-> Manufacturer,
   sourceUrl |-> url,
   sourceType |-> type,
   confidence |-> confidence,
   canonicalTitle |-> title,
   displayTitle |-> title,
   specs |-> specs,
   verbatimSections |-> <<>>,
   images |-> IF type = "oem" THEN <<"img1">> ELSE <<>>,
   datasheets |-> <<>>,
   rawDatasheet |-> raw]

VoltageOnly == <<[key |-> "Voltage", value |-> "120 V"]>>

AliasAndAlarm ==
  <<[key |-> "System Voltage", value |-> "240 V"],
    [key |-> "Remote Alarm", value |-> "No"],
    [key |-> "Weight", value |-> ""]>>

ExtractedProducts ==
  UNION { { ExtractedProduct(url, "distributor", c, <<>>, VoltageOnly, None),
            ExtractedProduct(url, "distributor", c, <<>>, AliasAndAlarm, None),
            ExtractedProduct(url, "oem", c, LongTitle, VoltageOnly, None),
            ExtractedProduct(url, "datasheet", c, <<>>, <<>>, Raw1),
            ExtractedProduct(url, "datasheet", c, <<>>, VoltageOnly, Raw2) } :
          url \in {"https://a", "https://b"}, c \in {50, 80} }

InitNormalize ==
  /\ callerProducts \in SeqsUpTo(ExtractedProducts, MaxProducts)
  /\ callerOptions \in {<<>>, <<RaMpn>>}
  /\ diskFile \in DiskStates
  /\ firstResult = None /\ secondResult = None /\ npc = "first"
  /\ PipelineOff /\ SynthesizeOff /\ BatchOff /\ ServicesOff

\* the caller's objects after a call: injection rebinds the local list to a new
\* array, so preprocessing writes to the caller's objects only when one of
\* them is a datasheet product
callerAfter(products, disk) ==
  IF injectsDatasheet(products, disk) THEN products ELSE preprocessAll(products)

NormalizeFirst ==
  /\ npc = "first"
  /\ IF normalizeThrows(callerProducts, diskFile)
     THEN npc' = "thrown" /\ UNCHANGED <<firstResult, callerProducts>>
     ELSE /\ firstResult' = normalizeProducts(callerProducts, callerOptions, diskFile)
          /\ callerProducts' = callerAfter(callerProducts, diskFile)
          /\ npc' = "second"
  /\ UNCHANGED <<callerOptions, diskFile, secondResult>>
  /\ UNCHANGED <<pipelineVars, crawlVars, synthVars, handlerVars, uiVars, serviceVars>>

NormalizeSecond ==
  /\ npc = "second"
  /\ secondResult' = normalizeProducts(callerProducts, callerOptions, diskFile)
  /\ callerProducts' = callerAfter(callerProducts, diskFile)
  /\ npc' = "done"
  /\ UNCHANGED <<callerOptions, diskFile, firstResult>>
  /\ UNCHANGED <<pipelineVars, crawlVars, synthVars, handlerVars, uiVars, serviceVars>>

NextNormalize == NormalizeFirst \/ NormalizeSecond

SpecNormalize == InitNormalize /\ [][NextNormalize]_vars

(***************************************************************************)
(* Properties of normalizeProducts, checked under SpecNormalize on the     *)
(* result of the first call.                                               *)
(***************************************************************************)
\* the sources of the first call: the caller's products, the datasheet of the
\* disk in front when it was injected, each with its datasheet specs flattened
sourcesOfFirst == workingProducts(callerProducts, diskFile)

\* the source p supplied a non-empty value for the canonical key k
supplies(p, k) ==
  \E i \in 1..Len(p.specs) : canonicalKeyOf(p.specs[i].key) = k /\ p.specs[i].value # ""

valuesFor(p, k) ==
  {p.specs[i].value : i \in {j \in 1..Len(p.specs) :
                               canonicalKeyOf(p.specs[j].key) = k /\ p.specs[j].value # ""}}

suppliers(k) == {i \in 1..Len(sourcesOfFirst) : supplies(sourcesOfFirst[i], k)}

maxConfidence(k) ==
  CHOOSE c \in {sourcesOfFirst[i].confidence : i \in suppliers(k)} :
    \A i \in suppliers(k) : sourcesOfFirst[i].confidence <= c

earliestMax(k) ==
  CHOOSE i \in suppliers(k) :
    /\ sourcesOfFirst[i].confidence = maxConfidence(k)
    /\ \A j \in suppliers(k) : sourcesOfFirst[j].confidence = maxConfidence(k) => i <= j

\* the entry carries the maximum confidence and the value of its earliest source
maxOfSources(entry) ==
  /\ entry.confidence = maxConfidence(entry.key)
  /\ entry.value \in valuesFor(sourcesOfFirst[earliestMax(entry.key)], entry.key)

firstReturned == npc = "second"

raRequested == firstReturned /\ endsWithRA(firstResult.mpn)

overlayEntry ==
  [key |-> "Remote Alarm", value |-> "Yes",
   sources |-> <<VariantSource>>, confidence |-> VariantConfidence]

\* C3 as stated: every spec some source supplied carries the maximum confidence
\* of its sources and the value of the earliest source with that maximum, also
\* when the canonical MPN ends in RA
C3_MaxConfidenceAlsoUnderRA ==
  firstReturned =>
    \A n \in 1..Len(firstResult.specs) :
      suppliers(firstResult.specs[n].key) # {} => maxOfSources(firstResult.specs[n])

\* C3: every spec carries the maximum confidence of the sources that supplied
\* it and the value of the earliest source with that maximum, except Remote
\* Alarm when the MPN ends in RA, which is Yes from variant:RA at 0.95
C3_MaxConfidenceExceptOverlay ==
  firstReturned =>
    \A n \in 1..Len(firstResult.specs) :
      LET entry == firstResult.specs[n]
      IN IF raRequested /\ entry.key = "Remote Alarm"
         THEN entry = overlayEntry
         ELSE suppliers(entry.key) # {} /\ maxOfSources(entry)

\* two sources of the voltage, the later one more confident, and a Remote Alarm
\* spec of a source under an RA MPN
C3_Witness ==
  /\ raRequested
  /\ Len(sourcesOfFirst) = 2
  /\ suppliers(CanonicalVoltage) = {1, 2}
  /\ sourcesOfFirst[1].confidence < sourcesOfFirst[2].confidence
  /\ suppliers("Remote Alarm") # {}
  /\ Lookup(firstResult.specs, CanonicalVoltage) = "240 V"

noDuplicates(seq) == \A i, j \in 1..Len(seq) : seq[i] = seq[j] => i = j

\* C4 as stated: the sources of every spec contain the sourceUrl of every
\* product that supplied it, each exactly once
C4_SourcesContainEverySupplier ==
  firstReturned =>
    \A n \in 1..Len(firstResult.specs) :
      LET entry == firstResult.specs[n]
      IN /\ \A i \in suppliers(entry.key) :
              sourcesOfFirst[i].sourceUrl \in Range(entry.sources)
         /\ noDuplicates(entry.sources)

\* C4: the sources of every spec are the sourceUrls of the products that
\* supplied it, each exactly once, except Remote Alarm when the MPN ends in
\* RA, whose only source is variant:RA
C4_SourcesExceptOverlay ==
  firstReturned =>
    \A n \in 1..Len(firstResult.specs) :
      LET entry == firstResult.specs[n]
      IN IF raRequested /\ entry.key = "Remote Alarm"
         THEN entry.sources = <<VariantSource>>
         ELSE /\ Range(entry.sources) =
                   {sourcesOfFirst[i].sourceUrl : i \in suppliers(entry.key)}
              /\ noDuplicates(entry.sources)

\* two products of one sourceUrl supply the voltage, next to the injected
\* datasheet, and a product supplies Remote Alarm under an RA MPN
C4_Witness ==
  /\ raRequested
  /\ Len(sourcesOfFirst) = 3
  /\ suppliers(CanonicalVoltage) = {1, 2, 3}
  /\ sourcesOfFirst[2].sourceUrl = sourcesOfFirst[3].sourceUrl
  /\ suppliers("Remote Alarm") # {}

\* C5: the second of two calls on the same objects returns what the first did
C5_SecondCallEqualsFirst == npc = "done" => secondResult = firstResult

(***************************************************************************)
(* One call of synthesizeProductContent.                                   *)
(***************************************************************************)
Features == {VoltageFeature, WeightFeature, InventedFeature, PlainFeature, <<>>}

SynthesisInputs ==
  [mpn : {BaseMpn},
   manufacturer : {Manufacturer},
   canonicalTitle : {<<>>, LongTitle, <<"shop", ".com">>},
   specs : { <<>>,
             <<[key |-> CanonicalVoltage, value |-> "120 V"]>>,
             <<[key |-> CanonicalVoltage, value |-> "120 V"],
               [key |-> "Weight", value |-> "Not specified"]>>,
             <<[key |-> CanonicalVoltage, value |-> "120 V"],
               [key |-> "Weight", value |-> ""]>>,
             <<[key |-> CanonicalVoltage, value |-> "NOT SPECIFIED"]>> },
   images : {<<>>, <<"img1">>},
   datasheets : {<<>>, <<"ds1">>},
   verbatimDescriptors : {<<>>, <<"Mach 1 overview">>}]

\* the objects extractJson parses out of the LLM's text
LlmResponses ==
  [keyFeatures : SeqsUpTo(Features, MaxFeatures),
   overview : {"", "Surge protection overview."},
   shortDescription : {""},
   longDescription : {"Long text."},
   bulletHighlights : {<<>>, <<PlainFeature>>},
   seoDescription : {120, SeoLimit + 1},
   seoTrim : {0, 1},
   disclaimers : {<<>>, <<InstallDisclaimer, InstallDisclaimer>>}]

InitSynthesize ==
  /\ synInput \in SynthesisInputs
  /\ synOutput = None /\ spc = "call"
  /\ PipelineOff /\ NormalizeOff /\ BatchOff /\ ServicesOff

\* the early return for an input without specs
SynthesizeWithoutLlm ==
  /\ spc = "call"
  /\ ~callsLlm(synInput)
  /\ synOutput' = synthesizeProductContent(synInput, Malformed)
  /\ spc' = "returned"
  /\ UNCHANGED synInput
  /\ UNCHANGED <<pipelineVars, crawlVars, normalizeVars, handlerVars, uiVars, serviceVars>>

\* the call of the LLM and what is made of its response
SynthesizeWithLlm ==
  /\ spc = "call"
  /\ callsLlm(synInput)
  /\ \/ \E llm \in LlmResponses :
          /\ synOutput' = synthesizeProductContent(synInput, llm)
          /\ spc' = "returned"
     \/ spc' = "thrown" /\ UNCHANGED synOutput
  /\ UNCHANGED synInput
  /\ UNCHANGED <<pipelineVars, crawlVars, normalizeVars, handlerVars, uiVars, serviceVars>>

NextSynthesize == SynthesizeWithoutLlm \/ SynthesizeWithLlm

SpecSynthesize == InitSynthesize /\ [][NextSynthesize]_vars

\* C2: every "Label: value" entry of the keyFeatures returned has a Label that
\* is a key of the input specs
C2_KeyFeatureLabelsAreSpecKeys ==
  spc = "returned" =>
    \A i \in 1..Len(synOutput.keyFeatures) :
      indexOfColon(synOutput.keyFeatures[i]) # 0 =>
        labelInSpecs(synOutput.keyFeatures[i], synInput.specs)

(***************************************************************************)
(* Batches: enrichHandler on the server and startEnrichment in the UI, on  *)
(* independent batches.  A call for one MPN either returns or throws.      *)
(***************************************************************************)
CallOutcomes == {"returned", "threw"}

\* req.body: mpns is an array, or the body is malformed
RequestBodies ==
  {[valid |-> TRUE, mpns |-> m] : m \in SeqsUpTo(Mpns, MaxBatch)}
  \cup {[valid |-> FALSE, mpns |-> <<>>]}

Rows == [mpn : Mpns, status : {"pending", "completed"}]

\* what runProductPipeline returns for an MPN, as far as the batch sees it
resultOf(m) == [mpn |-> canonicalMpnOf(m)]

InitBatch ==
  /\ reqBody \in RequestBodies
  /\ hIdx = 0 /\ results = <<>> /\ response = None /\ hOutcomes = <<>> /\ hpc = "start"
  /\ items \in SeqsUpTo(Rows, MaxBatch)
  /\ data = items /\ uIdx = 0 /\ isProcessing = FALSE /\ upc = "idle"
  /\ PipelineOff /\ NormalizeOff /\ SynthesizeOff /\ ServicesOff

\* the validation of the body, and const results = []
HandlerStart ==
  /\ hpc = "start"
  /\ IF ~reqBody.valid
     THEN /\ response' = [status |-> 400, results |-> <<>>]
          /\ hpc' = "done"
          /\ UNCHANGED <<hIdx, results>>
     ELSE /\ results' = <<>>
          /\ hIdx' = 1
          /\ hpc' = "loop"
          /\ UNCHANGED response
  /\ UNCHANGED <<reqBody, hOutcomes>>
  /\ UNCHANGED <<pipelineVars, crawlVars, normalizeVars, synthVars, uiVars, serviceVars>>

\* one pass of the for loop: await runProductPipeline; a rejection leaves the
\* loop for the catch block around it, which answers 500
HandlerCall ==
  /\ hpc = "loop"
  /\ hIdx <= Len(reqBody.mpns)
  /\ \E outcome \in CallOutcomes :
       /\ hOutcomes' = Append(hOutcomes, outcome)
       /\ IF outcome = "returned"
          THEN /\ results' = Append(results, resultOf(reqBody.mpns[hIdx]))
               /\ hIdx' = hIdx + 1
               /\ UNCHANGED <<response, hpc>>
          ELSE /\ response' = [status |-> 500, results |-> <<>>]
               /\ hpc' = "done"
               /\ UNCHANGED <<results, hIdx>>
  /\ UNCHANGED reqBody
  /\ UNCHANGED <<pipelineVars, crawlVars, normalizeVars, synthVars, uiVars, serviceVars>>

\* return res.json({ results })
HandlerRespond ==
  /\ hpc = "loop"
  /\ hIdx > Len(reqBody.mpns)
  /\ response' = [status |-> 200, results |-> results]
  /\ hpc' = "done"
  /\ UNCHANGED <<reqBody, hIdx, results, hOutcomes>>
  /\ UNCHANGED <<pipelineVars, crawlVars, normalizeVars, synthVars, uiVars, serviceVars>>

setStatus(rows, i, status) == [rows EXCEPT ![i] = [@ EXCEPT !.status = status]]

\* if (isProcessing) return; setIsProcessing(true)
UiStart ==
  /\ upc = "idle"
  /\ IF isProcessing
     THEN upc' = "done" /\ UNCHANGED <<isProcessing, uIdx>>
     ELSE isProcessing' = TRUE /\ uIdx' = 1 /\ upc' = "loop"
  /\ UNCHANGED <<items, data>>
  /\ UNCHANGED <<pipelineVars, crawlVars, normalizeVars, synthVars, handlerVars, serviceVars>>

\* the head of one pass: skip a completed row, or mark the row processing
UiNext ==
  /\ upc = "loop"
  /\ uIdx <= Len(items)
  /\ IF items[uIdx].status = "completed"
     THEN uIdx' = uIdx + 1 /\ UNCHANGED <<data, upc>>
     ELSE /\ data' = setStatus(data, uIdx, "processing")
          /\ upc' = "awaiting"
          /\ UNCHANGED uIdx
  /\ UNCHANGED <<items, isProcessing>>
  /\ UNCHANGED <<pipelineVars, crawlVars, normalizeVars, synthVars, handlerVars, serviceVars>>

\* await enrichComponentInfo inside the try of the pass, and its catch
UiSettle ==
  /\ upc = "awaiting"
  /\ \E outcome \in CallOutcomes :
       data' = setStatus(data, uIdx, IF outcome = "returned" THEN "completed" ELSE "error")
  /\ uIdx' = uIdx + 1
  /\ upc' = "loop"
  /\ UNCHANGED <<items, isProcessing>>
  /\ UNCHANGED <<pipelineVars, crawlVars, normalizeVars, synthVars, handlerVars, serviceVars>>

\* setIsProcessing(false)
UiFinish ==
  /\ upc = "loop"
  /\ uIdx > Len(items)
  /\ isProcessing' = FALSE
  /\ upc' = "done"
  /\ UNCHANGED <<items, data, uIdx>>
  /\ UNCHANGED <<pipelineVars, crawlVars, normalizeVars, synthVars, handlerVars, serviceVars>>

NextBatch ==
  \/ HandlerStart
  \/ HandlerCall
  \/ HandlerRespond
  \/ UiStart
  \/ UiNext
  \/ UiSettle
  \/ UiFinish

SpecBatch == InitBatch /\ [][NextBatch]_vars

\* the handler has called the pipeline for every MPN of the batch and has
\* delivered the result of every call that returned
handlerDelivers ==
  (hpc = "done" /\ reqBody.valid) =>
    /\ Len(hOutcomes) = Len(reqBody.mpns)
    /\ \A i \in 1..Len(hOutcomes) :
         hOutcomes[i] = "returned" => resultOf(reqBody.mpns[i]) \in Range(response.results)

\* the UI loop has taken every row to completed or error
uiDelivers ==
  (upc = "done" /\ uIdx > 0) =>
    \A i \in 1..Len(data) : data[i].status \in {"completed", "error"}

\* C9: a thrown error for one MPN of a batch aborts neither enrichHandler nor
\* startEnrichment: every other MPN is processed and its result is delivered
C9_FailureNeverAbortsBatch == handlerDelivers /\ uiDelivers

(***************************************************************************)
(* discoverProductSources, called on its own.                              *)
(*                                                                         *)
(* A search result is its link and what scoreResults reads from its link,  *)
(* title and snippet.  Feature values and weights are in tenths, so the    *)
(* linear value of a result among n is an exact integer over 100 n.        *)
(***************************************************************************)
MaxResults == 5

SearchResult(link, mpnInTitle, mfgInText, productPath, domain, junkPath) ==
  [link |-> link, mpnInUrl |-> 1, mpnInTitle |-> mpnInTitle, mfgInText |-> mfgInText,
   productPath |-> productPath, domain |-> domain, junkPath |-> junkPath]

Catalogue ==
  { SearchResult("https://www.digikey.com/product/m-1", 1, 1, 1, "digikey.com", 0),
    SearchResult("https://www.mouser.com/product/m-1", 1, 1, 1, "mouser.com", 0),
    SearchResult("https://pdf.datasheetcatalog.com/m-1.pdf", 0, 1, 0,
                 "pdf.datasheetcatalog.com", 0),
    SearchResult("https://docviewer.example.com/m-1.pdf", 0, 1, 0,
                 "docviewer.example.com", 0),
    SearchResult("https://docs.example.com/m-1.pdf", 0, 1, 0, "docs.example.com", 0),
    SearchResult("https://forum.example.com/search?q=m-1", 0, 0, 0,
                 "forum.example.com", 1) }

\* url.toLowerCase().endsWith(".pdf")
endsWithPdf(url) ==
  url \in { "https://pdf.datasheetcatalog.com/m-1.pdf",
            "https://docviewer.example.com/m-1.pdf",
            "https://docs.example.com/m-1.pdf" }

\* what runSerperQuery can return: up to MaxResults organic results
SearchResponses == SeqsUpTo(Catalogue, MaxResults)

\* bootstrapDomainTrust, in tenths
bootstrapDomainTrust(domain) ==
  IF domain = "" THEN 0
  ELSE IF domain = "forum.example.com" THEN 0 - 7
  ELSE IF domain = "docviewer.example.com" THEN 0 - 4
  ELSE IF domain = "pdf.datasheetcatalog.com" THEN 0 - 3
  ELSE IF domain \in {"digikey.com", "mouser.com"} THEN 9
  ELSE IF domain = "surgepure.com" THEN 4
  ELSE 0

\* the six features of a result, in tenths
featuresOf(r) ==
  << 10 * r.mpnInUrl, 10 * r.mpnInTitle, 10 * r.mfgInText, 10 * r.productPath,
     bootstrapDomainTrust(r.domain), 10 * r.junkPath >>

\* the weights, in tenths
Weights == <<42, 34, 26, 20, 16, 0 - 38>>

RECURSIVE SumSeq(_)
SumSeq(xs) == IF xs = <<>> THEN 0 ELSE Head(xs) + SumSeq(Tail(xs))

\* 100 n times the linear value of each of the n results: the sum over the
\* features of weight * (feature - mean)
linearOf(organic) ==
  LET n == Len(organic)
      features == [j \in 1..n |-> featuresOf(organic[j])] \o <<>>
      totals == [k \in 1..6 |-> SumSeq([j \in 1..n |-> features[j][k]])] \o <<>>
  IN [i \in 1..n |->
        SumSeq([k \in 1..6 |-> Weights[k] * (n * features[i][k] - totals[k])])] \o <<>>

\* 1 / (1 + Math.exp(-x)) in millionths, at x = 0.0, 0.1, 0.2, ...
LogisticTable ==
  << 500000, 524979, 549834, 574443, 598688, 622459, 645656, 668188,
     689974, 710950, 731059, 750260, 768525, 785835, 802184, 817574,
     832018, 845535, 858149, 869892, 880797, 890903, 900250, 908877,
     916827, 924142, 930862, 937027, 942676, 947846, 952574, 956893,
     960834, 964429, 967705, 970688, 973403, 975873, 978119, 980160,
     982014, 983698, 985226, 986613, 987872, 989013, 990048, 990987,
     991837, 992608, 993307, 993940, 994514, 995033, 995504, 995930,
     996316, 996665, 996982, 997268, 997527, 997762, 997975, 998167,
     998341, 998499, 998641, 998771, 998887, 998993, 999089, 999176,
     999254, 999325, 999389, 999447, 999500, 999547, 999590, 999629,
     999665, 999697, 999725, 999752, 999775, 999797, 999816, 999833,
     999849, 999864, 999877, 999888, 999899, 999909, 999917, 999925,
     999932, 999939, 999945, 999950, 999955, 999959, 999963, 999966,
     999970, 999972, 999975, 999977, 999980, 999982, 999983, 999985,
     999986, 999988, 999989, 999990, 999991, 999992, 999992, 999993,
     999994, 999994, 999995, 999995, 999996, 999996, 999997, 999997,
     999997, 999998, 999998, 999998, 999998, 999998, 999998, 999999 >>

\* 1 / (1 + Math.exp(-num/den)) in millionths: the table, interpolated
\* linearly between its points (within 0.00013 of the value)
logistic(num, den) ==
  LET a == IF num < 0 THEN 0 - num ELSE num
      j == (10 * a) \div den
      r == 10 * a - j * den
      v == LogisticTable[j + 1] + ((LogisticTable[j + 2] - LogisticTable[j + 1]) * r) \div den
  IN IF num < 0 THEN 1000000 - v ELSE v

\* places x behind every entry that does not rank below it
insertByScore(sorted, x) ==
  LET before == SelectSeq(sorted, LAMBDA y : y.linear >= x.linear)
      after == SelectSeq(sorted, LAMBDA y : y.linear < x.linear)
  IN before \o <<x>> \o after

RECURSIVE sortByScore(_)
\* .sort((a, b) => b.score - a.score): stable, highest first.  The score is a
\* strictly increasing function of the linear value over its whole range
\* (below 19 in size), so the order is that of the exact linear values
sortByScore(entries) ==
  IF entries = <<>> THEN <<>>
  ELSE insertByScore(sortByScore(SubSeq(entries, 1, Len(entries) - 1)),
                     entries[Len(entries)])

scoreResults(organic) ==
  LET linear == linearOf(organic)
  IN sortByScore([i \in 1..Len(organic) |->
                    [url |-> organic[i].link,
                     linear |-> linear[i],
                     score |-> logistic(linear[i], 100 * Len(organic))]] \o <<>>)

slice3(xs) == SubSeq(xs, 1, Min(3, Len(xs)))

urlsOf(scored) == [i \in 1..Len(scored) |-> scored[i].url]

\* the backups without the filter on the primary URL
backupsUnfiltered(scored) == urlsOf(slice3(scored))

\* scored.filter(r => r.url !== primary?.url).slice(0, 3).map(r => r.url)
backupsOf(scored) ==
  urlsOf(slice3(SelectSeq(scored, LAMBDA r : r.url # scored[1].url)))

HighSeparation == 150000
MediumSeparation == 50000

\* a confidence read from the primary's own score
confidenceOfTopScore(scored) ==
  IF Len(scored) < 2 THEN "high"
  ELSE IF scored[1].score > 500000 + HighSeparation THEN "high"
  ELSE IF scored[1].score > 500000 + MediumSeparation THEN "medium"
  ELSE "low"

\* the confidence mapping of the separation of the two best scores
confidenceOf(scored) ==
  IF Len(scored) < 2 THEN "high"
  ELSE LET separation == scored[1].score - scored[2].score
       IN IF separation > HighSeparation THEN "high"
          ELSE IF separation > MediumSeparation THEN "medium"
          ELSE "low"

NullUrl == "null"

\* the return for a first query with results
rankedResult(organic) ==
  LET scored == scoreResults(organic)
  IN [primaryProductUrl |-> scored[1].url,
      backupUrls |-> backupsOf(scored),
      pdfUrls |-> slice3(SelectSeq(urlsOf(scored), endsWithPdf)),
      confidence |-> confidenceOf(scored)]

\* a fallback that reports medium whatever it found
fallbackAlwaysMedium(organic) ==
  LET pdfOnly == SelectSeq(urlsOf(scoreResults(organic)), endsWithPdf)
  IN [primaryProductUrl |-> NullUrl,
      backupUrls |-> <<>>,
      pdfUrls |-> slice3(pdfOnly),
      confidence |-> "medium"]

\* the return of the PDF fallback
fallbackResult(organic) ==
  LET pdfOnly == SelectSeq(urlsOf(scoreResults(organic)), endsWithPdf)
  IN [primaryProductUrl |-> NullUrl,
      backupUrls |-> <<>>,
      pdfUrls |-> slice3(pdfOnly),
      confidence |-> IF Len(pdfOnly) > 0 THEN "medium" ELSE "low"]

InitDiscovery ==
  /\ dpc = "query" /\ queries = <<>> /\ searchResults = <<>> /\ pdfResults = <<>>
  /\ dResult = None
  /\ PipelineOff /\ NormalizeOff /\ SynthesizeOff /\ BatchOff /\ ExtractOff /\ PdfOff
  /\ UploadOff

\* await runSerperQuery(`"${mpn}" "${manufacturer}"`), which may reject, and
\* what is made of its results
FirstQuery ==
  /\ dpc = "query"
  /\ queries' = Append(queries, "mpn manufacturer")
  /\ \/ dpc' = "thrown" /\ UNCHANGED <<searchResults, dResult>>
     \/ \E organic \in SearchResponses :
          /\ searchResults' = organic
          /\ IF organic = <<>>
             THEN dpc' = "fallback" /\ UNCHANGED dResult
             ELSE dpc' = "returned" /\ dResult' = rankedResult(organic)
  /\ UNCHANGED <<pdfResults, extractVars, pdfVars, outsideServices>>

\* await runSerperQuery(`"${mpn}" datasheet pdf`), which may reject, and the
\* return of the fallback
FallbackQuery ==
  /\ dpc = "fallback"
  /\ queries' = Append(queries, "mpn datasheet pdf")
  /\ \/ dpc' = "thrown" /\ UNCHANGED <<pdfResults, dResult>>
     \/ \E organic \in SearchResponses :
          /\ pdfResults' = organic
          /\ dResult' = fallbackResult(organic)
          /\ dpc' = "returned"
  /\ UNCHANGED <<searchResults, extractVars, pdfVars, outsideServices>>

NextDiscovery == FirstQuery \/ FallbackQuery

SpecDiscovery == InitDiscovery /\ [][NextDiscovery]_vars

(***************************************************************************)
(* Properties of discoverProductSources, checked under SpecDiscovery.      *)
(***************************************************************************)
ranked == dpc = "returned" /\ searchResults # <<>>

\* the place of result i in the ranking: one more than the number of results
\* with a higher linear value, or the same value and an earlier place
rankOf(linear, i) ==
  1 + Cardinality({j \in 1..Len(linear) :
                     linear[j] > linear[i] \/ (linear[j] = linear[i] /\ j < i)})

\* the index in searchResults of the result ranked at place p
atRank(p) ==
  LET linear == linearOf(searchResults)
  IN CHOOSE i \in 1..Len(searchResults) : rankOf(linear, i) = p

rankedLinks == [p \in 1..Len(searchResults) |-> searchResults[atRank(p)].link]

scoreAtRank(p) ==
  logistic(linearOf(searchResults)[atRank(p)], 100 * Len(searchResults))

\* C16: when the first query returns at least one result, primaryProductUrl
\* is the top-ranked candidate (highest score, earliest in the search order on
\* equal scores) and backupUrls holds at most three URLs, in rank order, none
\* equal to the primary URL
C16_PrimaryIsTopRanked ==
  ranked =>
    LET others == SelectSeq(rankedLinks, LAMBDA u : u # dResult.primaryProductUrl)
    IN /\ dResult.primaryProductUrl = rankedLinks[1]
       /\ Len(dResult.backupUrls) <= 3
       /\ \A i \in 1..Len(dResult.backupUrls) :
            dResult.backupUrls[i] # dResult.primaryProductUrl
       /\ dResult.backupUrls = SubSeq(others, 1, Min(3, Len(others)))

C16_Witness ==
  /\ ranked /\ Len(searchResults) = 5
  /\ Cardinality({searchResults[i].link : i \in 1..5}) = 5
  /\ searchResults[1].link = "https://www.mouser.com/product/m-1"
  /\ searchResults[2].link = "https://www.digikey.com/product/m-1"
  /\ dResult.primaryProductUrl = "https://www.mouser.com/product/m-1"
  /\ Len(dResult.backupUrls) = 3
  /\ dResult.backupUrls[1] = "https://www.digikey.com/product/m-1"

\* C17: with exactly one candidate the confidence is high; with two or more
\* it is high if s1 - s2 > 0.15, medium if 0.05 < s1 - s2 <= 0.15 and low
\* otherwise, s1 and s2 being the two highest scores: the separation alone
\* decides, whatever s1 is
C17_ConfidenceFromSeparation ==
  ranked =>
    /\ Len(searchResults) = 1 => dResult.confidence = "high"
    /\ Len(searchResults) >= 2 =>
         LET separation == scoreAtRank(1) - scoreAtRank(2)
         IN /\ separation >= 0
            /\ dResult.confidence = "high" <=> separation > 150000
            /\ dResult.confidence = "medium" <=> (50000 < separation /\ separation <= 150000)
            /\ dResult.confidence = "low" <=> separation <= 50000

C17_Witness ==
  /\ ranked /\ Len(searchResults) = 4
  /\ dResult.confidence = "medium"
  /\ scoreAtRank(1) > 900000

pdfLinks == SelectSeq([i \in 1..Len(pdfResults) |-> pdfResults[i].link], endsWithPdf)

\* C18: when the first query returns no result, the PDF fallback query is
\* issued and the result has primaryProductUrl null and backupUrls empty; with
\* no URL ending in .pdf in the fallback results pdfUrls is empty and the
\* confidence low, otherwise pdfUrls holds at most three PDF URLs and the
\* confidence is medium
C18_FallbackOnNoResults ==
  /\ (dpc \in {"fallback", "returned"} /\ searchResults = <<>>) =>
       queries[1] = "mpn manufacturer"
  /\ (dpc = "returned" /\ searchResults = <<>>) =>
       /\ queries = <<"mpn manufacturer", "mpn datasheet pdf">>
       /\ dResult.primaryProductUrl = "null"
       /\ dResult.backupUrls = <<>>
       /\ pdfLinks = <<>> => dResult.pdfUrls = <<>> /\ dResult.confidence = "low"
       /\ pdfLinks # <<>> =>
            /\ Len(dResult.pdfUrls) >= 1 /\ Len(dResult.pdfUrls) <= 3
            /\ \A i \in 1..Len(dResult.pdfUrls) :
                 endsWithPdf(dResult.pdfUrls[i]) /\ dResult.pdfUrls[i] \in Range(pdfLinks)
            /\ dResult.confidence = "medium"

C18_Witness ==
  /\ dpc = "returned" /\ searchResults = <<>>
  /\ Len(pdfLinks) = 4 /\ Len(pdfResults) = 5
  /\ Len(dResult.pdfUrls) = 3 /\ dResult.confidence = "medium"

C18_WitnessNoPdf ==
  /\ dpc = "returned" /\ searchResults = <<>>
  /\ Len(pdfResults) = 2 /\ pdfLinks = <<>>
  /\ dResult.pdfUrls = <<>> /\ dResult.confidence = "low"

(***************************************************************************)
(* extractFromHtml, called on its own.                                     *)
(***************************************************************************)
InitExtract ==
  /\ xpc = "call"
  /\ xArgs \in [html : RenderedPages \cup {None}, doc : Docs]
  /\ xResult = None
  /\ PipelineOff /\ NormalizeOff /\ SynthesizeOff /\ BatchOff /\ DiscoveryOff /\ PdfOff
  /\ UploadOff

\* extractFromHtml({ html, sourceUrl, mpn, manufacturer })
ExtractCall ==
  /\ xpc = "call"
  /\ xResult' = extractFromHtml(xArgs.html, xArgs.doc, "u1", <<"M", "-", "1">>, Manufacturer)
  /\ xpc' = "returned"
  /\ UNCHANGED <<xArgs, discoveryVars, pdfVars, outsideServices>>

\* the caller's test of the result: !extraction.ok || (qualityScore ?? 0) < 0.3
ExtractJudge ==
  /\ xpc = "returned"
  /\ xpc' = IF ~xResult.ok \/ scoreOrZero(xResult) < QualityFloor THEN "rejected" ELSE "accepted"
  /\ UNCHANGED <<xArgs, xResult, discoveryVars, pdfVars, outsideServices>>

NextExtract == ExtractCall \/ ExtractJudge

SpecExtract == InitExtract /\ [][NextExtract]_vars

\* C19: extractFromHtml returns ok false with reason low_quality when the
\* quality score it computed is exactly 0.30, as when specs are the only
\* feature present or when only images and an overview of more than 40
\* characters are, and the pipeline then rejects the extraction
C19_ScoreAtFloorFails ==
  (xpc # "call" /\ xResult.qualityScore = 30) =>
    /\ ~xResult.ok /\ xResult.reason = "low_quality"
    /\ xpc # "accepted"

(***************************************************************************)
(* extractFromPdf, called on its own.                                      *)
(*                                                                         *)
(* The PDF is what the call reads of it: the number of raw rows that       *)
(* extractSpecs captures from its text and the models detectModels finds.  *)
(***************************************************************************)
MinPdfRows == 18

\* the arguments and the environment: targetModel ("" when omitted) and
\* whether GEMINI_API_KEY is set
PdfCalls == [targetModel : {"", "M1", "M3"}, apiKey : BOOLEAN]

\* what a fetch of the PDF URL can give: a status, or 0 for a rejected fetch
FetchStatuses == {200, 403, 404, 0}

PdfDocuments ==
  [rows : {0, MinPdfRows - 1, MinPdfRows, MinPdfRows + 1},
   models : {<<>>, <<"M1">>, <<"M2", "M1">>}]

\* what the Gemini call can give: an HTTP error, a response without text, a
\* text that is not JSON, JSON without specs, or the mapped specs
GeminiOutcomes == {"api_error", "empty", "not_json", "no_specs", "mapped"}

thrown(error) == [kind |-> "thrown", error |-> error]

\* a row test that also refuses the minimum itself
tooFewRowsInclusive(rows) == rows <= MinPdfRows

\* rawRows.length < 18
tooFewRows(rows) == rows < MinPdfRows

\* targetModel && detectedModels.includes(targetModel) ? targetModel : detectedModels[0]
resolvedTargetModel(targetModel, detectedModels) ==
  IF targetModel # "" /\ targetModel \in Range(detectedModels) THEN targetModel
  ELSE IF detectedModels # <<>> THEN detectedModels[1]
  ELSE "undefined"

InitPdf ==
  /\ fpc = "fetch"
  /\ pdfArgs \in PdfCalls
  /\ pdfDoc = None /\ pdfCalls = <<>> /\ pdfRet = None
  /\ PipelineOff /\ NormalizeOff /\ SynthesizeOff /\ BatchOff /\ DiscoveryOff /\ ExtractOff
  /\ UploadOff

\* await fetchPdfBuffer(pdfUrl): one fetch, a second one after a 403, and a
\* throw unless the last response is ok
FetchPdf ==
  /\ fpc = "fetch"
  /\ \E first \in FetchStatuses, second \in FetchStatuses :
       LET last == IF first = 403 THEN second ELSE first
       IN /\ pdfCalls' = IF first = 403 THEN <<"fetch", "fetch">> ELSE <<"fetch">>
          /\ IF last = 200
             THEN fpc' = "parse" /\ UNCHANGED pdfRet
             ELSE fpc' = "thrown" /\ pdfRet' = thrown("download")
  /\ UNCHANGED <<pdfArgs, pdfDoc, discoveryVars, extractVars, outsideServices>>

\* await parsePdfText(buffer), which rejects for a buffer pdf-parse cannot
\* read, then detectModels, extractSpecs and the test of the raw rows
ParsePdf ==
  /\ fpc = "parse"
  /\ \/ fpc' = "thrown" /\ pdfRet' = thrown("parse") /\ UNCHANGED pdfDoc
     \/ \E doc \in PdfDocuments :
          /\ pdfDoc' = doc
          /\ IF tooFewRows(doc.rows)
             THEN fpc' = "thrown" /\ pdfRet' = thrown("rows")
             ELSE fpc' = "map" /\ UNCHANGED pdfRet
  /\ UNCHANGED <<pdfArgs, pdfCalls, discoveryVars, extractVars, outsideServices>>

\* await mapWithGemini(...) and the mapping of geminiResult.specs
MapWithGemini ==
  /\ fpc = "map"
  /\ IF ~pdfArgs.apiKey
     THEN fpc' = "thrown" /\ pdfRet' = thrown("api_key") /\ UNCHANGED pdfCalls
     ELSE /\ pdfCalls' = Append(pdfCalls, "llm")
          /\ \E outcome \in GeminiOutcomes :
               IF outcome = "mapped"
               THEN /\ fpc' = "returned"
                    /\ pdfRet' = [kind |-> "returned",
                                  detectedModels |-> pdfDoc.models,
                                  targetModel |->
                                    resolvedTargetModel(pdfArgs.targetModel, pdfDoc.models),
                                  rawRows |-> pdfDoc.rows]
               ELSE fpc' = "thrown" /\ pdfRet' = thrown(outcome)
  /\ UNCHANGED <<pdfArgs, pdfDoc, discoveryVars, extractVars, outsideServices>>

NextPdf == FetchPdf \/ ParsePdf \/ MapWithGemini

SpecPdf == InitPdf /\ [][NextPdf]_vars

(***************************************************************************)
(* Properties of extractFromPdf, checked under SpecPdf.                    *)
(***************************************************************************)
pdfEnded == fpc \in {"returned", "thrown"}

downloadFailed == pdfEnded /\ pdfRet = [kind |-> "thrown", error |-> "download"]

capturedRows(n) == pdfDoc # None /\ pdfDoc.rows = n

fewerThan18 == pdfDoc # None /\ pdfDoc.rows < 18

llmCalled == "llm" \in Range(pdfCalls)

\* C20 as stated: extractFromPdf throws if and only if the download fails or
\* fewer than 18 raw rows were captured; with exactly 18 rows it proceeds to
\* the LLM mapping, with 17 it throws before any LLM call
C20_ThrowsIffDownloadOrRows ==
  pdfEnded =>
    /\ fpc = "thrown" <=> (downloadFailed \/ fewerThan18)
    /\ capturedRows(17) => fpc = "thrown" /\ ~llmCalled
    /\ capturedRows(18) => llmCalled

\* C20: extractFromPdf throws if the download fails or fewer than 18 raw rows
\* were captured, in both cases before any LLM call; with 17 rows it throws,
\* with exactly 18 it proceeds to mapWithGemini.  It throws otherwise only when
\* the PDF cannot be parsed or the LLM mapping fails (no API key, an API error,
\* an empty or unparsable response, a response without specs)
C20_ThrowsOnDownloadRowsParseOrLlm ==
  /\ fpc = "map" => (pdfDoc.rows >= 18 /\ ~llmCalled /\ pdfCalls[Len(pdfCalls)] = "fetch")
  /\ pdfEnded =>
       /\ (downloadFailed \/ fewerThan18) => fpc = "thrown" /\ ~llmCalled
       /\ capturedRows(17) => pdfRet = [kind |-> "thrown", error |-> "rows"]
       /\ capturedRows(18) =>
            /\ pdfRet.kind = "thrown" => pdfRet.error # "rows"
            /\ pdfArgs.apiKey <=> llmCalled
       /\ fpc = "thrown" =>
            \/ downloadFailed
            \/ fewerThan18
            \/ pdfDoc = None /\ pdfRet.error = "parse"
            \/ /\ pdfDoc # None /\ pdfDoc.rows >= 18
               /\ IF llmCalled
                  THEN pdfRet.error \in {"api_error", "empty", "not_json", "no_specs"}
                  ELSE ~pdfArgs.apiKey /\ pdfRet.error = "api_key"
       /\ fpc = "returned" => pdfDoc.rows >= 18 /\ llmCalled

C20_Witness ==
  /\ fpc = "returned" /\ capturedRows(18) /\ llmCalled
  /\ pdfCalls = <<"fetch", "fetch", "llm">>

C20_WitnessTooFew ==
  fpc = "thrown" /\ capturedRows(17) /\ pdfCalls = <<"fetch">>

\* C21: when extractFromPdf is called with a target model, the LLM mapping is
\* requested for exactly that model; the first detected model is used only
\* when no target model is given
C21_MappingForGivenTarget ==
  fpc = "returned" =>
    /\ pdfArgs.targetModel # "" => pdfRet.targetModel = pdfArgs.targetModel
    /\ (pdfArgs.targetModel = "" /\ pdfDoc.models # <<>>) =>
         pdfRet.targetModel = pdfDoc.models[1]

\* C22: every SynthesisOutput that synthesizeProductContent returns has a
\* seoDescription of at most 160 characters, for every LLM response and on
\* the early return for an input without specs
C22_SeoDescriptionAtMost160 ==
  spc = "returned" => synOutput.seoDescription <= 160

\* an LLM text of 161 characters, cut to 160 and trimmed of one trailing space
C22_Witness ==
  spc = "returned" /\ callsLlm(synInput) /\ synOutput.seoDescription = 159

C22_WitnessNoSpecs ==
  spc = "returned" /\ ~callsLlm(synInput) /\ synOutput.seoDescription = 0

\* C23: when normalizeProducts puts the datasheet of the disk (confidence
\* 0.95) in front of the product extracted from HTML, the merged value of
\* every canonical key both supply is the datasheet's, whatever quality score
\* (0.30 up to 1.0) the pipeline passed as the HTML product's confidence
C23_DatasheetValueWins ==
  normalized # None =>
    LET products == <<pipelineProduct(extraction)>>
    IN \A disk \in DiskStates :
         ( /\ disk.state = "ok"
           /\ injectsDatasheet(products, disk)
           /\ normalized = normalizeProducts(products, <<canonicalMpn>>, disk) ) =>
           LET work == workingProducts(products, disk)
           IN \A i \in 1..Len(normalized.specs) :
                LET k == normalized.specs[i].key
                IN (supplies(work[1], k) /\ supplies(work[2], k)) =>
                     normalized.specs[i].value \in valuesFor(work[1], k)

\* C24: crawlPage fetches the URL at most twice, returns at the first fetch
\* that passes every validation without launching a browser, and launches the
\* browser exactly once, and only after both fetches have failed
C24_TwoFetchesThenOneLaunch ==
  /\ crawlOps \in {<<>>, <<"fetch">>, <<"fetch", "fetch">>,
                   <<"fetch", "fetch", "launch">>}
  /\ (cpc = "returned" /\ ~crawlRet.usedPlaywright) =>
       crawlOps \in {<<"fetch">>, <<"fetch", "fetch">>} /\ Len(crawlOps) = attempt + 1
  /\ (cpc = "returned" /\ crawlRet.usedPlaywright) =>
       crawlOps = <<"fetch", "fetch", "launch">> /\ attempt = FetchAttempts
  /\ cpc \in {"launch", "newPage", "goto", "close"} => attempt = FetchAttempts
  /\ cpc \in {"newPage", "goto", "close"} => crawlOps = <<"fetch", "fetch", "launch">>

\* the second fetch passes: no browser
C24_Witness ==
  cpc = "returned" /\ crawlOps = <<"fetch", "fetch">> /\ crawlRet.crawlConfidence = "high"

\* both fetches fail: the browser, once
C24_WitnessBrowser ==
  /\ cpc = "returned" /\ crawlOps = <<"fetch", "fetch", "launch">>
  /\ crawlRet.usedPlaywright /\ browser = "closed"

\* C25: every CrawlResult crawlPage returns has crawlConfidence high exactly
\* when usedPlaywright is false; it has medium only when usedPlaywright is
\* true and the rendered html passes hasUsableProductSignals; and a browser
\* result whose html fails that check has low with fallbackReason non_product
C25_ConfidenceByTier ==
  cpc = "returned" =>
    /\ crawlRet.crawlConfidence = "high" <=> ~crawlRet.usedPlaywright
    /\ crawlRet.crawlConfidence = "medium" =>
         /\ crawlRet.usedPlaywright
         /\ crawlRet.html # None
         /\ hasUsableProductSignals(crawlRet.html)
    /\ ( /\ crawlRet.usedPlaywright
         /\ crawlRet.html # None
         /\ ~hasUsableProductSignals(crawlRet.html) ) =>
         crawlRet.crawlConfidence = "low" /\ crawlRet.fallbackReason = "non_product"

\* the browser renders a page without usable signals after two failed fetches
C25_Witness ==
  /\ cpc = "returned" /\ crawlRet.usedPlaywright /\ crawlRet.html # None
  /\ ~hasUsableProductSignals(crawlRet.html)
  /\ crawlRet.crawlConfidence = "low" /\ fallbackReason = "fetch_failed"

C25_WitnessMedium ==
  /\ cpc = "returned" /\ crawlRet.crawlConfidence = "medium"
  /\ hasUsableProductSignals(crawlRet.html)

C25_WitnessHigh ==
  cpc = "returned" /\ crawlRet.crawlConfidence = "high" /\ crawlOps = <<"fetch">>

\* C26: a result of extractFromHtml with ok false and reason low_quality
\* carries the qualityScore and the title, specs, overview, images and
\* datasheets that were found; a result with reason no_html, blocked,
\* non_product or parse_error has empty specs, images and datasheets, a null
\* overview and displayTitle, and no qualityScore
C26_LowQualityKeepsWhatWasFound ==
  (xpc # "call" /\ ~xResult.ok) =>
    /\ xResult.reason \in {"low_quality", "no_html", "blocked", "non_product", "parse_error"}
    /\ xResult.reason = "low_quality" =>
         /\ xResult.qualityScore = qualityScoreOf(xArgs.doc)
         /\ xResult.qualityScore # Undefined
         /\ xResult.displayTitle = xArgs.doc.displayTitle
         /\ xResult.specs = xArgs.doc.specs
         /\ xResult.overviewLength = xArgs.doc.overviewLength
         /\ xResult.images = xArgs.doc.images
         /\ xResult.datasheets = xArgs.doc.datasheets
    /\ xResult.reason # "low_quality" =>
         /\ xResult.qualityScore = Undefined
         /\ xResult.displayTitle = <<>>
         /\ xResult.specs = <<>>
         /\ xResult.overviewLength = 0
         /\ xResult.images = <<>>
         /\ xResult.datasheets = <<>>

\* a page on which only a datasheet link was found: score 0.25
C26_Witness ==
  /\ xpc = "returned" /\ xResult.reason = "low_quality"
  /\ xResult.datasheets # <<>> /\ xResult.qualityScore = 25

\* a page on which something was found, refused by a guard
C26_WitnessNoHtml ==
  xpc = "returned" /\ xResult.reason = "no_html" /\ xArgs.html = None

C26_WitnessNonProduct ==
  xpc = "returned" /\ xResult.reason = "non_product" /\ xArgs.doc.displayTitle # <<>>

\* the times a sentence occurs in a list of disclaimers
occurrences(disclaimers, sentence) ==
  Cardinality({i \in 1..Len(disclaimers) : disclaimers[i] = sentence})

\* a spec value that is empty or Not specified in any case
notProvided(val) == val \in {"", "Not specified", "not specified", "NOT SPECIFIED"}

\* C27: the disclaimers of every SynthesisOutput that synthesizeProductContent
\* returns contain the installation sentence exactly once, whether or not the
\* LLM response has it already, and contain the sentence about specifications
\* not provided whenever some input spec value is empty or Not specified
C27_InstallOnceAndMissingNoted ==
  spc = "returned" =>
    /\ occurrences(synOutput.disclaimers, InstallDisclaimer) = 1
    /\ (\E i \in 1..Len(synInput.specs) : notProvided(synInput.specs[i].value)) =>
         MissingDisclaimer \in Range(synOutput.disclaimers)

\* the LLM lists the installation sentence twice, and a spec value is empty
C27_Witness ==
  /\ spc = "returned" /\ callsLlm(synInput)
  /\ \E i \in 1..Len(synInput.specs) : synInput.specs[i].value = ""
  /\ synOutput.disclaimers = <<InstallDisclaimer, MissingDisclaimer>>

\* the LLM lists no disclaimer, and a value is NOT SPECIFIED in capitals
C27_WitnessCapitals ==
  /\ spc = "returned"
  /\ \E i \in 1..Len(synInput.specs) : synInput.specs[i].value = "NOT SPECIFIED"
  /\ synOutput.disclaimers = <<MissingDisclaimer, InstallDisclaimer>>

C27_WitnessNoSpecs ==
  /\ spc = "returned" /\ ~callsLlm(synInput)
  /\ synOutput.disclaimers = <<InsufficientDisclaimer, InstallDisclaimer>>

\* C28: whenever the specs handed to synthesizeProductContent are empty, the
\* LLM is not called, the synthesis confidence is 0 and the final result of
\* the pipeline is not usable, whatever the discovery confidence, the crawl
\* tier and the extraction quality score
C28_NoSpecsNeverUsable ==
  (returned /\ synthesis # None /\ buildSynthesisInput(normalized).specs = <<>>) =>
    /\ "llm" \notin Range(calls)
    /\ synthesis.confidence = Rat(0, 1)
    /\ finalConfidence = finalConfidenceOf(discoveryConfidenceOf(discovery),
                                           crawlConfidenceOf(crawl),
                                           scoreOrZero(extraction), Rat(0, 1))
    /\ ~final.usable

\* the best run without specs: high discovery, fast fetch, quality score 0.70
C28_Witness ==
  /\ returned /\ synthesis # None /\ buildSynthesisInput(normalized).specs = <<>>
  /\ discovery.confidence = "high" /\ ~crawl.usedPlaywright
  /\ extraction.qualityScore = 70
  /\ ~final.usable

(***************************************************************************)
(* File uploads in the UI: handleFileUpload and the startEnrichment loops  *)
(* it starts, all on the React state data and isProcessing.                *)
(*                                                                         *)
(* A step runs from one await to the next.  A function of a render reads   *)
(* the isProcessing of that render: a handleFileUpload call carries the    *)
(* value of the moment its file was chosen.  A row is its mpn, its status  *)
(* and the MPN its stored result was computed for ("none" before).         *)
(***************************************************************************)
UploadedMpns == {"P-1", "P-2"}

\* what parseExcelFile yields: the MPNs of the file's rows
UploadedFiles == UNION {[1..k -> UploadedMpns] : k \in 1..MaxBatch}

\* rawData.map(item => ({ ...item, status: 'pending', ... }))
initialEnrichedData(rawData) ==
  [i \in 1..Len(rawData) |->
     [mpn |-> rawData[i], status |-> "pending", enrichedFor |-> "none"]]

\* prev.map((item, idx) => idx === i ? { ...item, status, ...result } : item)
mapRow(prev, i, status, enrichedFor) ==
  [idx \in 1..Len(prev) |->
     IF idx = i
     THEN [prev[idx] EXCEPT !.status = status,
                            !.enrichedFor = IF enrichedFor = "same" THEN @ ELSE enrichedFor]
     ELSE prev[idx]]

removeAt(seq, k) == SubSeq(seq, 1, k - 1) \o SubSeq(seq, k + 1, Len(seq))

InitUpload ==
  /\ uploadCount = 0 /\ parsing = <<>> /\ loops = <<>> /\ uiError = "null"
  /\ PipelineOff /\ NormalizeOff /\ SynthesizeOff /\ BatchOff
  /\ DiscoveryOff /\ ExtractOff /\ PdfOff

outsideUpload ==
  <<pipelineVars, crawlVars, normalizeVars, synthVars, handlerVars, items, uIdx, upc,
    discoveryVars, extractVars, pdfVars>>

\* handleFileUpload up to await parseExcelFile(file): setError(null), setData([])
FileChosen ==
  /\ uploadCount < MaxUploads
  /\ uploadCount' = uploadCount + 1
  /\ \E file \in UploadedFiles :
       parsing' = Append(parsing, [rawData |-> file, isProcessing |-> isProcessing])
  /\ uiError' = "null"
  /\ data' = <<>>
  /\ UNCHANGED <<isProcessing, loops>>
  /\ UNCHANGED outsideUpload

\* parseExcelFile resolves: setData(initialEnrichedData) and
\* startEnrichment(initialEnrichedData), which returns at once when the
\* isProcessing of its render is true and otherwise runs to its first await
FileParsed ==
  /\ \E k \in 1..Len(parsing) :
       LET h == parsing[k]
           initial == initialEnrichedData(h.rawData)
       IN /\ parsing' = removeAt(parsing, k)
          /\ IF h.isProcessing
             THEN /\ data' = initial
                  /\ UNCHANGED <<isProcessing, loops, uiError>>
             ELSE /\ isProcessing' = TRUE
                  /\ uiError' = "null"
                  /\ data' = mapRow(initial, 1, "processing", "same")
                  /\ loops' = Append(loops, [items |-> initial, i |-> 1])
  /\ UNCHANGED uploadCount
  /\ UNCHANGED outsideUpload

\* parseExcelFile rejects: setError(err.message)
FileRejected ==
  /\ \E k \in 1..Len(parsing) : parsing' = removeAt(parsing, k)
  /\ uiError' = "parse"
  /\ UNCHANGED <<uploadCount, data, isProcessing, loops>>
  /\ UNCHANGED outsideUpload

\* enrichComponentInfo settles in one loop: the row at i of the current data
\* takes the result or the error, then the loop goes to its next await, or
\* ends with setIsProcessing(false)
EnrichSettled ==
  /\ \E k \in 1..Len(loops), outcome \in CallOutcomes :
       LET l == loops[k]
           settled == IF outcome = "returned"
                      THEN mapRow(data, l.i, "completed", l.items[l.i].mpn)
                      ELSE mapRow(data, l.i, "error", "same")
       IN IF l.i < Len(l.items)
          THEN /\ data' = mapRow(settled, l.i + 1, "processing", "same")
               /\ loops' = [loops EXCEPT ![k].i = l.i + 1]
               /\ UNCHANGED isProcessing
          ELSE /\ data' = settled
               /\ loops' = removeAt(loops, k)
               /\ isProcessing' = FALSE
  /\ UNCHANGED <<uploadCount, parsing, uiError>>
  /\ UNCHANGED outsideUpload

NextUpload == FileChosen \/ FileParsed \/ FileRejected \/ EnrichSettled

SpecUpload == InitUpload /\ [][NextUpload]_vars

\* no file is being parsed and no loop is running
settledUi == uploadCount > 0 /\ parsing = <<>> /\ loops = <<>>

\* C29: after any sequence of file uploads, one made while an earlier batch
\* is still processing included, every row of the batch uploaded last has
\* reached completed or error once the UI has come to rest, and the result
\* stored in a row is always the one computed for the row's own MPN
C29_LastBatchProcessedWithOwnResults ==
  /\ \A i \in 1..Len(data) :
       data[i].enrichedFor # "none" => data[i].enrichedFor = data[i].mpn
  /\ settledUi => \A i \in 1..Len(data) : data[i].status \in {"completed", "error"}

\* the entries of final.keyFeatures and of final.specTable for the Remote Alarm
remoteAlarmFeatures ==
  {i \in 1..Len(final.keyFeatures) :
     indexOfColon(final.keyFeatures[i]) # 0
     /\ labelOf(final.keyFeatures[i]) = <<"Remote Alarm">>}

remoteAlarmRows ==
  {i \in 1..Len(final.specTable) : final.specTable[i].name = <<"Remote Alarm">>}

\* C30: the final of a usable RA-variant run has exactly one Remote Alarm
\* entry in specTable and exactly one in keyFeatures, for every synthesis
\* output, one whose keyFeatures already list Remote Alarm: Yes included
C30_OneRemoteAlarmEntry ==
  (returned /\ isRAVariant /\ final.usable) =>
    /\ Cardinality(remoteAlarmFeatures) = 1
    /\ Cardinality(remoteAlarmRows) = 1

====
